---- MODULE Spec2Model ----
(***************************************************************************)
(* Model of the demand-letter signer (streamlit_app.py): the template      *)
(* matcher, the placeholder classifier (_extract_placeholders), the field  *)
(* filler (create_signed_pdf_simple) and the batch loop of main().         *)
(*                                                                         *)
(* Text is kept as TLA+ strings; Len, SubSeq and \o act on them as on      *)
(* sequences of characters, so strip(), lower() and the "in" substring     *)
(* test are computed character by character as Python computes them.      *)
(* Coordinates are integers (PDF points); the code only compares, adds     *)
(* and subtracts them.                                                     *)
(***************************************************************************)
EXTENDS Integers, Sequences, FiniteSets, TLC

(***************************************************************************)
(* Bounds of the model.                                                    *)
(***************************************************************************)
\* lines of text on the first page of an explored document
MaxLines == 2
\* pages of an explored document
MaxPages == 2
\* uploaded documents in one batch
MaxDocs == 3

(***************************************************************************)
(* Python string operations.                                               *)
(***************************************************************************)
UpperLetters == "ABCDEFGHIJKLMNOPQRSTUVWXYZ"
LowerLetters == "abcdefghijklmnopqrstuvwxyz"
Digits == "0123456789"

CharAt(s, k) == SubSeq(s, k, k)

\* the substring test  sub in s
Contains(s, sub) ==
    \E k \in 1..(Len(s) - Len(sub) + 1) : SubSeq(s, k, k + Len(sub) - 1) = sub

\* s.startswith(prefix)
StartsWith(s, prefix) ==
    Len(s) >= Len(prefix) /\ SubSeq(s, 1, Len(prefix)) = prefix

\* the lower-case letter of each upper-case letter
LowerOf ==
    [c \in {CharAt(UpperLetters, k) : k \in 1..Len(UpperLetters)} |->
        CharAt(LowerLetters, CHOOSE k \in 1..Len(UpperLetters) : CharAt(UpperLetters, k) = c)]

LowerChar(c) == IF c \in DOMAIN LowerOf THEN LowerOf[c] ELSE c

RECURSIVE Lower(_)
\* s.lower()
Lower(s) ==
    IF s = "" THEN "" ELSE LowerChar(CharAt(s, 1)) \o Lower(SubSeq(s, 2, Len(s)))

\* s.strip(): leading and trailing blanks removed
Strip(s) ==
    LET nonblank == {k \in 1..Len(s) : CharAt(s, k) # " "}
    IN  IF s = "" THEN ""
        ELSE IF CharAt(s, 1) # " " /\ CharAt(s, Len(s)) # " " THEN s
        ELSE IF nonblank = {} THEN ""
        ELSE SubSeq(s, CHOOSE a \in nonblank : \A b \in nonblank : a <= b,
                       CHOOSE a \in nonblank : \A b \in nonblank : a >= b)

\* all(c in '_' for c in s)
AllUnderscores(s) == \A k \in 1..Len(s) : CharAt(s, k) = "_"

\* len([c for c in s if c == '_'])
CountUnderscores(s) == Cardinality({k \in 1..Len(s) : CharAt(s, k) = "_"})

\* s.isdigit()
IsDigit(s) ==
    /\ Len(s) > 0
    /\ \A k \in 1..Len(s) : \E d \in 1..Len(Digits) : CharAt(Digits, d) = CharAt(s, k)

Abs(n) == IF n < 0 THEN 0 - n ELSE n

Max2(a, b) == IF a >= b THEN a ELSE b

\* the set of elements of a sequence
Range(seq) == {seq[k] : k \in 1..Len(seq)}

RECURSIVE Concat(_)
\* the concatenation of a sequence of sequences
Concat(seqs) ==
    IF seqs = <<>> THEN <<>> ELSE Head(seqs) \o Concat(Tail(seqs))

\* Python's None
None == "None"

(***************************************************************************)
(* Tokens (pdfplumber words) and the text lines the explored pages are     *)
(* built from.  A token is {text, x0, top, x1, bottom, size}.              *)
(***************************************************************************)
Tok(text, x0, top, width) ==
    [text |-> text, x0 |-> x0, top |-> top, x1 |-> x0 + width,
     bottom |-> top + 10, size |-> 12]

ShortBlank == "_____"
Line22 == "______________________"
Line30 == "______________________________"

\* The lines a page may carry, in reading order.
LineCatalog == <<
    \* 1: a signature anchor in the top region
    << Tok("Signature", 72, 300, 50) >>,
    \* 2: a parenthesis checkbox followed by the personal-delivery phrase
    << Tok("( )", 72, 400, 12), Tok("By", 100, 400, 12),
       Tok("personally", 115, 400, 50), Tok("delivering", 170, 400, 50) >>,
    \* 3: a parenthesis checkbox followed by the posting phrase
    << Tok("( )", 72, 420, 12), Tok("By", 100, 420, 12), Tok("posting", 115, 420, 40) >>,
    \* 4: a parenthesis checkbox with no service phrase
    << Tok("()", 72, 440, 10), Tok("Other", 100, 440, 30) >>,
    \* 5: an opening parenthesis, a period and a closing parenthesis as three tokens
    << Tok("(", 72, 460, 4), Tok(".", 76, 460, 3), Tok(")", 80, 460, 4),
       Tok("By", 100, 460, 12), Tok("posting", 115, 460, 40) >>,
    \* 6: date blanks embedded in prose
    << Tok("____day", 100, 200, 40), Tok("of______,", 180, 200, 50),
       Tok("20____.", 260, 200, 40) >>,
    \* 7: three plain short blanks
    << Tok(ShortBlank, 100, 220, 30), Tok(ShortBlank, 200, 220, 30),
       Tok(ShortBlank, 300, 220, 30) >>,
    \* 8: a long signature rule below y = 500
    << Tok(Line22, 72, 510, 130) >>,
    \* 9: a long signature rule below y = 600, labelled
    << Tok(Line30, 72, 610, 180), Tok("Agent", 200, 622, 30) >>,
    \* 10: a signature word below the top region
    << Tok("SIGN", 72, 347, 30) >>,
    \* 11: two parenthesis spellings extracted at one position
    << Tok("( )", 72, 480, 12), Tok("()", 72, 480, 10),
       Tok("By", 100, 480, 12), Tok("posting", 115, 480, 40) >>,
    \* 12: an opening parenthesis and a period extracted at one position
    << Tok("(", 72, 500, 4), Tok(".", 72, 500, 3), Tok(")", 80, 500, 4),
       Tok("By", 100, 500, 12), Tok("posting", 115, 500, 40) >>,
    \* 13: a street number and a unit number
    << Tok("8890", 72, 120, 24), Tok("Main", 100, 120, 24), Tok("1204", 130, 120, 24) >>,
    \* 14: a labelled apartment number
    << Tok("Apartment", 72, 140, 50), Tok("Number:", 126, 140, 40), Tok("12B", 170, 140, 18) >>,
    \* 15: an abbreviated apartment number
    << Tok("Apt", 72, 160, 18), Tok("#", 94, 160, 6), Tok("204", 104, 160, 18) >>,
    \* 16: a single 4-digit number
    << Tok("7731", 72, 180, 24) >>,
    \* 17: a blank after "day of"
    << Tok("this", 72, 640, 20), Tok("day", 100, 640, 18), Tok("of", 122, 640, 10),
       Tok(ShortBlank, 150, 640, 30) >>,
    \* 18: a blank labelled with the word month
    << Tok("Month:", 100, 700, 36), Tok(ShortBlank, 150, 700, 30) >>,
    \* 19: a blank between a month name and a century
    << Tok("in", 100, 760, 10), Tok("May,", 116, 760, 24), Tok(ShortBlank, 150, 760, 30),
       Tok("20", 190, 760, 12) >>,
    \* 20: a blank labelled with the word year
    << Tok("Year", 100, 820, 24), Tok(ShortBlank, 150, 820, 30) >>,
    \* 21: a blank with no date word near it
    << Tok("Dated", 100, 880, 30), Tok(ShortBlank, 150, 880, 30) >>,
    \* 22: a blank after "day of", a month name and a century
    << Tok("day", 80, 940, 18), Tok("of", 102, 940, 10), Tok("March", 116, 940, 30),
       Tok(ShortBlank, 150, 940, 30), Tok("2025", 190, 940, 24) >>,
    \* 23: a long signature rule just above y = 345
    << Tok(Line22, 72, 344, 130) >>,
    \* 24: a long signature rule between y = 345 and y = 350
    << Tok(Line22, 72, 347, 130) >>,
    \* 25: a long signature rule at y = 350
    << Tok(Line22, 72, 350, 130) >>,
    \* 26: a signature anchor just above y = 345
    << Tok("Signature", 72, 344, 50) >>,
    \* 27: an opening parenthesis before the word posting
    << Tok("(", 72, 460, 4), Tok(")", 80, 460, 4), Tok("posting", 115, 460, 40) >>,
    \* 28: a period in its place
    << Tok(".", 72, 460, 3), Tok(")", 80, 460, 4), Tok("posting", 115, 460, 40) >>,
    \* 29: an opening parenthesis before the posting phrase
    << Tok("(", 72, 460, 4), Tok(")", 80, 460, 4), Tok("By", 100, 460, 12),
       Tok("posting", 115, 460, 40) >>,
    \* 30: a period in its place
    << Tok(".", 72, 460, 3), Tok(")", 80, 460, 4), Tok("By", 100, 460, 12),
       Tok("posting", 115, 460, 40) >>,
    \* 31: an opening parenthesis before the personal-delivery phrase
    << Tok("(", 72, 460, 4), Tok(")", 80, 460, 4), Tok("By", 100, 460, 12),
       Tok("personally", 115, 460, 50), Tok("delivering", 170, 460, 50) >>,
    \* 32: a period in its place
    << Tok(".", 72, 460, 3), Tok(")", 80, 460, 4), Tok("By", 100, 460, 12),
       Tok("personally", 115, 460, 50), Tok("delivering", 170, 460, 50) >>
>>

LineIds == 1..Len(LineCatalog)

\* the smallest element of a non-empty set of integers
MinOf(S) == CHOOSE a \in S : \A b \in S : a <= b

RECURSIVE WordsOfLines(_)
\* page.extract_words() of a page carrying the lines  lines (a set of LineIds)
WordsOfLines(lines) ==
    IF lines = {} THEN <<>>
    ELSE LineCatalog[MinOf(lines)] \o WordsOfLines(lines \ {MinOf(lines)})

(***************************************************************************)
(* The template registry.                                                  *)
(***************************************************************************)
TemplateNames == <<"Florida Template", "Georgia Template", "Alabama Template">>

TEMPLATES ==
    [t \in Range(TemplateNames) |->
        [file_path |-> "templates/" \o t \o ".pdf",
         include_date |-> (t # "Georgia Template")]]

(***************************************************************************)
(* _extract_placeholders: the placeholder classifier.                      *)
(***************************************************************************)
Location(page_num, w, placeholder_type, checkbox_type, nearby_text) ==
    [page |-> page_num, text |-> Strip(w.text), x |-> w.x0, y |-> w.top,
     width |-> w.x1 - w.x0, height |-> w.bottom - w.top, font_size |-> w.size,
     placeholder_type |-> placeholder_type, checkbox_type |-> checkbox_type,
     nearby_text |-> nearby_text]

RECURSIVE JoinTrailing(_)
\* nearby_text built by  nearby_text += other_word['text'] + " "
JoinTrailing(words) ==
    IF words = <<>> THEN "" ELSE Head(words).text \o " " \o JoinTrailing(Tail(words))

RECURSIVE JoinLower(_)
\* ' '.join(w['text'].lower() for w in words)
JoinLower(words) ==
    IF words = <<>> THEN ""
    ELSE IF Len(words) = 1 THEN Lower(Head(words).text)
    ELSE Lower(Head(words).text) \o " " \o JoinLower(Tail(words))

\* the vertical cutoff below which a signature word is accepted
AnchorTopCutoff == 345

\* rule 1: "Signature", "SIGN", "SIGN HERE" in the top section
SignatureAnchor(w, page_num) ==
    LET word_text == Strip(w.text)
    IN  IF /\ Lower(word_text) \in {"signature", "sign", "sign here"}
           /\ w.top < AnchorTopCutoff
        THEN << Location(page_num, w, "signature", "", "") >>
        ELSE <<>>

\* rule 2: a long underscore line in the template's signature band
SignatureLine(w, page_num, template_name) ==
    LET word_text == Strip(w.text)
        should_add ==
            IF template_name = "Georgia Template"
            THEN w.top < 500 \/ w.top > 600
            ELSE IF template_name = "Alabama Template"
            THEN (500 <= w.top /\ w.top <= 520) \/ (600 <= w.top /\ w.top <= 620)
            ELSE w.top > 500
    IN  IF Len(word_text) > 20 /\ AllUnderscores(word_text) /\ should_add
        THEN << Location(page_num, w, "signature", "", "") >>
        ELSE <<>>

\* rule 3: any token holding a run of three underscores is a date blank, unless
\* it is long and a signature-related word is close by
UnderscoreBlank(words, w, page_num) ==
    LET word_text == Strip(w.text)
        nearby_words ==
            SelectSeq(words, LAMBDA o : Abs(o.top - w.top) < 20 /\ Abs(o.x0 - w.x0) < 150)
        nearby_text == JoinLower(nearby_words)
        skipped ==
            /\ Len(word_text) > 15
            /\ \E sig_word \in {"signature", "agent", "landlord", "shivaani"} :
                   Contains(nearby_text, sig_word)
    IN  IF Contains(word_text, "___") /\ CountUnderscores(word_text) >= 3 /\ ~skipped
        THEN << Location(page_num, w, "underscore_blank", "", "") >>
        ELSE <<>>

\* the tag of a parenthesis glyph: the text to its right on the same line
ParenNearbyText(words, w) ==
    JoinTrailing(SelectSeq(words, LAMBDA o :
        Abs(o.top - w.top) < 10 /\ o.x0 > w.x0 /\ o.x0 - w.x0 < 200))

ParenServiceType(nearby_text) ==
    LET nearby_lower == Lower(nearby_text)
    IN  IF Contains(nearby_lower, "by personally delivering") THEN "personally_delivering"
        ELSE IF Contains(nearby_lower, "by posting") THEN "posting"
        ELSE "unknown"

\* the tag of a period glyph: the text in a wide window around it
PeriodNearbyText(words, w) ==
    JoinTrailing(SelectSeq(words, LAMBDA o :
        Abs(o.top - w.top) < 100 /\ Abs(o.x0 - w.x0) < 800))

PeriodServiceType(nearby_text) ==
    LET nearby_lower == Lower(nearby_text)
    IN  IF \E phrase \in {"personally delivering same upon said tenant",
                          "personally delivering", "personally delivered"} :
               Contains(nearby_lower, phrase)
        THEN "personally_delivering"
        ELSE IF \E phrase \in {"posting same at the above described premises",
                               "posting same at the above described",
                               "posting same at", "posting"} :
               Contains(nearby_lower, phrase)
        THEN "posting"
        ELSE "unknown"

\* rules 6: an existing checkbox glyph.  Gives the candidates added for the
\* token and the page's set of detected positions after it.
ExistingCheckbox(words, w, page_num, detected) ==
    LET word_text == Strip(w.text)
        key == <<w.x0, w.top>>
        has_matching_paren ==
            \E k \in 1..Len(words) :
                /\ Strip(words[k].text) = ")"
                /\ Abs(words[k].top - w.top) < 10
                /\ words[k].x0 > w.x0
        has_nearby_parentheses ==
            \E k \in 1..Len(words) :
                /\ Strip(words[k].text) \in {"(", ")"}
                /\ Abs(words[k].x0 - w.x0) < 30
                /\ Abs(words[k].top - w.top) < 20
        paren_nearby == ParenNearbyText(words, w)
        period_nearby == PeriodNearbyText(words, w)
        none == [locs |-> <<>>, detected |-> detected]
    IN  IF word_text \in {"( )", "()", "(.)", "("}
        THEN IF word_text = "(" /\ ~has_matching_paren THEN none
             ELSE IF key \in detected THEN none
             ELSE [locs |-> << Location(page_num, w, "existing_checkbox",
                                        ParenServiceType(paren_nearby),
                                        Strip(paren_nearby)) >>,
                   detected |-> detected \cup {key}]
        ELSE IF word_text = "."
        THEN IF ~has_nearby_parentheses THEN none
             ELSE IF key \in detected THEN none
             ELSE [locs |-> << Location(page_num, w, "existing_checkbox",
                                        PeriodServiceType(period_nearby),
                                        Strip(period_nearby)) >>,
                   detected |-> detected \cup {key}]
        ELSE none

RECURSIVE ScanWordsNoDedupe(_, _, _, _, _)
\* the loop without the check of detected_parentheses
ScanWordsNoDedupe(words, k, page_num, template_name, detected_parentheses) ==
    IF k > Len(words) THEN <<>>
    ELSE LET w == words[k]
         IN  SignatureAnchor(w, page_num)
             \o SignatureLine(w, page_num, template_name)
             \o UnderscoreBlank(words, w, page_num)
             \o ExistingCheckbox(words, w, page_num, {}).locs
             \o ScanWordsNoDedupe(words, k + 1, page_num, template_name, {})

RECURSIVE ScanWords(_, _, _, _, _)
\* the loop  for word_data in words  of one page, from the k-th word on
ScanWords(words, k, page_num, template_name, detected_parentheses) ==
    IF k > Len(words) THEN <<>>
    ELSE LET w == words[k]
             cb == ExistingCheckbox(words, w, page_num, detected_parentheses)
         IN  SignatureAnchor(w, page_num)
             \o SignatureLine(w, page_num, template_name)
             \o UnderscoreBlank(words, w, page_num)
             \o cb.locs
             \o ScanWords(words, k + 1, page_num, template_name, cb.detected)

RECURSIVE ScanPages(_, _, _)
\* the loop  for page_num, page in enumerate(pdf.pages) ; page_num is 0-based
ScanPages(pages, page_num, template_name) ==
    IF page_num >= Len(pages) THEN <<>>
    ELSE ScanWords(WordsOfLines(pages[page_num + 1]), 1, page_num, template_name, {})
         \o ScanPages(pages, page_num + 1, template_name)

\* template_name and  word in template_name.lower()
TemplateIs(template_name, word) ==
    template_name # None /\ Contains(Lower(template_name), word)

RECURSIVE SortByY(_)
\* list.sort(key=lambda x: x['y']): stable, ascending
SortByY(locs) ==
    IF locs = <<>> THEN <<>>
    ELSE LET init == SortByY(SubSeq(locs, 1, Len(locs) - 1))
             e == locs[Len(locs)]
             k == Cardinality({j \in 1..Len(init) : init[j].y <= e.y})
         IN  SubSeq(init, 1, k) \o <<e>> \o SubSeq(init, k + 1, Len(init))

\* the roles given by position, per template
TypePattern(template_name) ==
    IF TemplateIs(template_name, "florida")
    THEN <<"day_blank", "month_blank", "year_blank", "signature">>
    ELSE IF TemplateIs(template_name, "alabama")
    THEN <<"signature", "day_blank", "month_blank", "year_blank", "signature">>
    ELSE <<"day_blank", "month_blank", "year_blank">>

\* Florida: the role of a blank from its own text; i is its 0-based rank
FloridaAssignedType(blank_text, i) ==
    LET text == Lower(blank_text)
    IN  IF Contains(text, "day") THEN "day_blank"
        ELSE IF Contains(text, "of") /\ Contains(text, ",") THEN "month_blank"
        ELSE IF Contains(text, ",") /\ Len(text) > 10 THEN "month_blank"
        ELSE IF StartsWith(text, "20") THEN "year_blank"
        ELSE IF Len(text) > 25 THEN "signature"
        ELSE <<"day_blank", "month_blank", "year_blank">>[(i % 3) + 1]

\* the role of the i-th blank (0-based) in top-to-bottom order, or None to
\* leave it as it is
AssignedType(template_name, blank, i) ==
    IF TemplateIs(template_name, "florida")
    THEN FloridaAssignedType(blank.text, i)
    ELSE IF i < Len(TypePattern(template_name))
    THEN TypePattern(template_name)[i + 1]
    ELSE None

\* loc['placeholder_type'] = assigned_type on the first candidate that is still
\* an underscore_blank at the blank's position
UpdateFirstBlank(locs, blank, assigned_type) ==
    LET hits == {j \in 1..Len(locs) :
                    /\ locs[j].placeholder_type = "underscore_blank"
                    /\ locs[j].x = blank.x /\ locs[j].y = blank.y}
    IN  IF hits = {} THEN locs
        ELSE [locs EXCEPT ![MinOf(hits)].placeholder_type = assigned_type]

RECURSIVE AssignBlanks(_, _, _, _)
\* the loop  for i, blank in enumerate(underscore_blanks), from rank i on
AssignBlanks(locs, underscore_blanks, i, template_name) ==
    IF i >= Len(underscore_blanks) THEN locs
    ELSE LET blank == underscore_blanks[i + 1]
             assigned_type == AssignedType(template_name, blank, i)
         IN  AssignBlanks(IF assigned_type = None THEN locs
                          ELSE UpdateFirstBlank(locs, blank, assigned_type),
                          underscore_blanks, i + 1, template_name)

\* the post-processing of the underscore blanks of the whole document
PostProcessBlanks(locs, template_name) ==
    LET underscore_blanks ==
            SortByY(SelectSeq(locs, LAMBDA l : l.placeholder_type = "underscore_blank"))
    IN  AssignBlanks(locs, underscore_blanks, 0, template_name)

\* _extract_placeholders(pdf, template_name)
ExtractPlaceholders(pages, template_name) ==
    PostProcessBlanks(ScanPages(pages, 0, template_name), template_name)

(***************************************************************************)
(* match_pdf_to_template: the template matcher.  A feature summary is      *)
(* [page_count, word_count, has_demand_letter_keywords, state_indicators,  *)
(* key_phrases].  template_files gives, per registered template, the       *)
(* result of analysing its file: [status, value] with status "ok" and the  *)
(* summary, "None" when the analysis failed, or "missing" when the file    *)
(* does not exist.                                                         *)
(***************************************************************************)
Features(page_count, word_count, keywords, states, phrases) ==
    [page_count |-> page_count, word_count |-> word_count,
     has_demand_letter_keywords |-> keywords, state_indicators |-> states,
     key_phrases |-> phrases]

NoFeatures == Features(0, 0, FALSE, {}, {})

\* an analysis that gave a summary, and one that gave none
Analysed(features) == [status |-> "ok", value |-> features]
NotAnalysed(status) == [status |-> status, value |-> NoFeatures]

\* a scoring that takes a page difference of 2 for a difference of 1
ScorePagesWithinTwo(uploaded_pdf_features, template_name, template_feat) ==
    LET state ==
            IF "florida" \in uploaded_pdf_features.state_indicators
               /\ Contains(Lower(template_name), "florida") THEN 50
            ELSE IF "georgia" \in uploaded_pdf_features.state_indicators
               /\ Contains(Lower(template_name), "georgia") THEN 50
            ELSE 0
        doctype ==
            IF uploaded_pdf_features.has_demand_letter_keywords
               /\ Contains(Lower(template_name), "template") THEN 30
            ELSE 0
        page_diff == Abs(uploaded_pdf_features.page_count - template_feat.page_count)
        pages == IF page_diff = 0 THEN 20
                 ELSE IF page_diff <= 2 THEN 10
                 ELSE 0
        word_diff == Abs(uploaded_pdf_features.word_count - template_feat.word_count)
        words == IF word_diff < 100 THEN 15
                 ELSE IF word_diff < 500 THEN 10
                 ELSE IF word_diff < 1000 THEN 5
                 ELSE 0
        common_phrases == uploaded_pdf_features.key_phrases \cap template_feat.key_phrases
    IN  state + doctype + pages + words + Cardinality(common_phrases) * 5

Score(uploaded_pdf_features, template_name, template_feat) ==
    LET state ==
            IF "florida" \in uploaded_pdf_features.state_indicators
               /\ Contains(Lower(template_name), "florida") THEN 50
            ELSE IF "georgia" \in uploaded_pdf_features.state_indicators
               /\ Contains(Lower(template_name), "georgia") THEN 50
            ELSE 0
        doctype ==
            IF uploaded_pdf_features.has_demand_letter_keywords
               /\ Contains(Lower(template_name), "template") THEN 30
            ELSE 0
        page_diff == Abs(uploaded_pdf_features.page_count - template_feat.page_count)
        pages == IF page_diff = 0 THEN 20
                 ELSE IF page_diff = 1 THEN 10
                 ELSE IF page_diff <= 2 THEN 5
                 ELSE 0
        word_diff == Abs(uploaded_pdf_features.word_count - template_feat.word_count)
        words == IF word_diff < 100 THEN 15
                 ELSE IF word_diff < 500 THEN 10
                 ELSE IF word_diff < 1000 THEN 5
                 ELSE 0
        common_phrases == uploaded_pdf_features.key_phrases \cap template_feat.key_phrases
    IN  state + doctype + pages + words + Cardinality(common_phrases) * 5

RECURSIVE BestMatchLastWins(_, _, _, _, _)
\* a scoring loop that replaces the best match on an equal score
BestMatchLastWins(uploaded_pdf_features, template_files, k, best_match, best_score) ==
    IF k > Len(TemplateNames) THEN <<best_match, best_score>>
    ELSE LET template_name == TemplateNames[k]
             template_feat == template_files[template_name].value
         IN  IF template_files[template_name].status # "ok"
             THEN BestMatchLastWins(uploaded_pdf_features, template_files, k + 1,
                                    best_match, best_score)
             ELSE LET score == Score(uploaded_pdf_features, template_name, template_feat)
                  IN  IF score >= best_score /\ score > 0
                      THEN BestMatchLastWins(uploaded_pdf_features, template_files, k + 1,
                                             template_name, score)
                      ELSE BestMatchLastWins(uploaded_pdf_features, template_files, k + 1,
                                             best_match, best_score)

RECURSIVE BestMatchFirstScored(_, _, _, _, _)
\* a scoring loop that stops at the first template with a score above 0
BestMatchFirstScored(uploaded_pdf_features, template_files, k, best_match, best_score) ==
    IF k > Len(TemplateNames) THEN <<best_match, best_score>>
    ELSE LET template_name == TemplateNames[k]
             template_feat == template_files[template_name].value
         IN  IF template_files[template_name].status # "ok"
             THEN BestMatchFirstScored(uploaded_pdf_features, template_files, k + 1,
                                       best_match, best_score)
             ELSE LET score == Score(uploaded_pdf_features, template_name, template_feat)
                  IN  IF score > best_score
                      THEN <<template_name, score>>
                      ELSE BestMatchFirstScored(uploaded_pdf_features, template_files, k + 1,
                                                best_match, best_score)

RECURSIVE BestMatch(_, _, _, _, _)
\* the scoring loop over the registry, in insertion order, from the k-th template
BestMatch(uploaded_pdf_features, template_files, k, best_match, best_score) ==
    IF k > Len(TemplateNames) THEN <<best_match, best_score>>
    ELSE LET template_name == TemplateNames[k]
             template_feat == template_files[template_name].value
         IN  IF template_files[template_name].status # "ok"
             THEN BestMatch(uploaded_pdf_features, template_files, k + 1,
                            best_match, best_score)
             ELSE LET score == Score(uploaded_pdf_features, template_name, template_feat)
                  IN  IF score > best_score
                      THEN BestMatch(uploaded_pdf_features, template_files, k + 1,
                                     template_name, score)
                      ELSE BestMatch(uploaded_pdf_features, template_files, k + 1,
                                     best_match, best_score)

\* match_pdf_to_template(uploaded_pdf_features): <<best_match, best_score>>
MatchPdfToTemplate(uploaded_pdf_features, template_files) ==
    BestMatch(uploaded_pdf_features, template_files, 1, None, 0)

\* a floor that lets a score of exactly 20 through
MatchAcceptedAtFloor(matched_template, match_score) ==
    matched_template # None /\ match_score >= 20

\* the caller's test  matched_template and match_score > 20
MatchAccepted(matched_template, match_score) ==
    matched_template # None /\ match_score > 20

(***************************************************************************)
(* extract_unit_info_from_page: the identifier extractor.                  *)
(***************************************************************************)
IsFourDigits(word_text) == Len(word_text) = 4 /\ IsDigit(word_text)

\* the second 4-digit number, else the only one, else what was found so far
PickUnit(unit_number, all_units) ==
    IF unit_number = "0000" /\ all_units # <<>>
    THEN IF Len(all_units) >= 2 THEN all_units[2] ELSE all_units[1]
    ELSE unit_number

RECURSIVE ScanUnitWords(_, _, _, _)
\* the loop  for i, word_data in enumerate(words)  of the Georgia and Alabama
\* branches, from the 0-based index i on: <<unit_number, all_units>>
ScanUnitWords(words, i, all_units, template_name) ==
    IF i >= Len(words) THEN <<"0000", all_units>>
    ELSE LET word_text == Strip(words[i + 1].text)
             label == IF template_name = "Georgia Template" THEN "apartment" ELSE "apt"
         IN  IF Lower(word_text) = label /\ i + 2 < Len(words)
             THEN IF template_name = "Georgia Template"
                  THEN IF Lower(Strip(words[i + 2].text)) = "number:"
                       THEN <<Strip(words[i + 3].text), all_units>>
                       ELSE ScanUnitWords(words, i + 1, all_units, template_name)
                  ELSE IF Strip(words[i + 2].text) = "#" /\ IsDigit(Strip(words[i + 3].text))
                       THEN <<Strip(words[i + 3].text), all_units>>
                       ELSE ScanUnitWords(words, i + 1, all_units, template_name)
             ELSE IF IsFourDigits(word_text)
             THEN ScanUnitWords(words, i + 1, Append(all_units, word_text), template_name)
             ELSE ScanUnitWords(words, i + 1, all_units, template_name)

\* extract_unit_info_from_page(pdf, template_name, page_number) on a readable
\* document with the pages  pages
ExtractUnitInfoFromPage(pages, template_name, page_number) ==
    IF pages = <<>> THEN "0000"
    ELSE LET page == IF page_number >= Len(pages) THEN 0 ELSE page_number
             words == WordsOfLines(pages[page + 1])
             four == SelectSeq(words, LAMBDA w : IsFourDigits(Strip(w.text)))
             all4 == [k \in 1..Len(four) |-> Strip(four[k].text)]
         IN  IF template_name = "Florida Template"
             THEN PickUnit("0000", all4)
             ELSE IF template_name \in {"Georgia Template", "Alabama Template"}
             THEN LET r == ScanUnitWords(words, 0, <<>>, template_name)
                  IN  PickUnit(r[1], r[2])
             ELSE "0000"

\* how a call ends: it returns a value or it raises
Returned(value) == [status |-> "returned", value |-> value]
Raised == [status |-> "raised", value |-> ""]

\* an argument pdf_path_or_bytes: kind is its Python type ("path" a str that
\* names a file, "missing_path" a str that names none), readable whether
\* pdfplumber opens it, failing the 1-based pages whose extract_words raises
Argument(kind, readable, pages, failing) ==
    [kind |-> kind, readable |-> readable, pages |-> pages, failing |-> failing]

\* the try block of extract_unit_info_from_page
UnitTryBlock(pdf_path_or_bytes, template_name, page_number) ==
    IF pdf_path_or_bytes.kind \notin {"BytesIO", "bytes", "path"} THEN Returned("0000")
    ELSE IF ~pdf_path_or_bytes.readable THEN Raised
    ELSE LET n == Len(pdf_path_or_bytes.pages)
             number == IF page_number >= n THEN 0 ELSE page_number
             \* pdf.pages[page_number]: a negative index counts from the end
             index == IF number < 0 THEN n + number ELSE number
         IN  IF index < 0 \/ index >= n THEN Raised
             ELSE IF index + 1 \in pdf_path_or_bytes.failing THEN Raised
             ELSE Returned(ExtractUnitInfoFromPage(pdf_path_or_bytes.pages, template_name,
                                                   index))

\* a call without the except clause
ExtractUnitInfoCallUnhandled(pdf_path_or_bytes, template_name, page_number) ==
    UnitTryBlock(pdf_path_or_bytes, template_name, page_number)

\* extract_unit_info_from_page(pdf_path_or_bytes, template_name, page_number):
\* the try block, and  except Exception: return "0000"
ExtractUnitInfoCall(pdf_path_or_bytes, template_name, page_number) ==
    LET body == UnitTryBlock(pdf_path_or_bytes, template_name, page_number)
    IN  IF body.status = "raised" THEN Returned("0000") ELSE body

(***************************************************************************)
(* create_signed_pdf_simple: the field filler.                             *)
(***************************************************************************)
PersonallyDelivering == "By personally delivering same upon said tenant"
Posting == "By posting same at the above described premises in the absence of said tenant"

\* the faces tried for a signature, in order
FontNames == <<"times-roman", "times", "serif">>

RECURSIVE SplitFrom(_, _, _)
\* name.split(): the whitespace-separated tokens of name, from character k on,
\* cur being the token read so far
SplitFrom(name, k, cur) ==
    IF k > Len(name) THEN (IF cur = "" THEN <<>> ELSE <<cur>>)
    ELSE IF CharAt(name, k) \in {" ", "\t"}
    THEN (IF cur = "" THEN <<>> ELSE <<cur>>) \o SplitFrom(name, k + 1, "")
    ELSE SplitFrom(name, k + 1, cur \o CharAt(name, k))

\* a signature made of the first two tokens of the name
CreateHandwrittenSignatureFirstTwo(name) ==
    LET parts == SplitFrom(name, 1, "")
    IN  IF Len(parts) >= 2 THEN parts[1] \o " " \o parts[2] ELSE name

\* create_handwritten_signature(name, "elegant")
CreateHandwrittenSignature(name) ==
    LET parts == SplitFrom(name, 1, "")
    IN  IF Len(parts) >= 2 THEN parts[1] \o " " \o parts[Len(parts)] ELSE name

\* a reading of the context that looks for the year before the month
DetermineDateFieldTypeYearFirst(words, x, y) ==
    LET context == JoinLower(SelectSeq(words, LAMBDA w :
                       Abs(w.x0 - x) < 200 /\ Abs(w.top - y) < 50))
    IN  IF Contains(context, "day of") THEN "day"
        ELSE IF Contains(context, "20") \/ Contains(context, "year") THEN "year"
        ELSE IF Contains(context, "month")
                \/ \E month \in {"january", "february", "march", "april", "may", "june",
                                 "july", "august", "september", "october", "november",
                                 "december"} : Contains(context, month)
        THEN "month"
        ELSE "day"

\* the try block of determine_date_field_type(page, x, y, word_text), words
\* being what page.extract_words() returned
DetermineDateFieldType(words, x, y) ==
    LET context == JoinLower(SelectSeq(words, LAMBDA w :
                       Abs(w.x0 - x) < 200 /\ Abs(w.top - y) < 50))
    IN  IF Contains(context, "day of") THEN "day"
        ELSE IF Contains(context, "month")
                \/ \E month \in {"january", "february", "march", "april", "may", "june",
                                 "july", "august", "september", "october", "november",
                                 "december"} : Contains(context, month)
        THEN "month"
        ELSE IF Contains(context, "20") \/ Contains(context, "year") THEN "year"
        ELSE "day"

\* calculate_text_position(x, y, ..., placeholder_type): <<x, y>> of the text
CalculateTextPosition(x, y, placeholder_type) ==
    IF placeholder_type = "day_blank" THEN <<x + 10, y + 8>>
    ELSE IF placeholder_type \in {"month_blank", "year_blank", "date_blank"}
    THEN <<x + 15, y + 8>>
    ELSE IF placeholder_type = "signature" THEN <<x, y - 12>>
    ELSE <<x, y - 3>>

\* str(n) of a natural number
RECURSIVE IntStr(_)
IntStr(n) ==
    IF n < 10 THEN CharAt(Digits, n + 1)
    ELSE IntStr(n \div 10) \o CharAt(Digits, (n % 10) + 1)

\* s[-2:]
LastTwo(s) == IF Len(s) <= 2 THEN s ELSE SubSeq(s, Len(s) - 1, Len(s))

\* strftime("%B")
MonthNames ==
    <<"January", "February", "March", "April", "May", "June", "July", "August",
      "September", "October", "November", "December">>

\* a suffix that forgets the teens
GetOrdinalSuffixNoTeens(day) ==
    IF day % 10 = 1 THEN "st"
    ELSE IF day % 10 = 2 THEN "nd"
    ELSE IF day % 10 = 3 THEN "rd"
    ELSE "th"

\* get_ordinal_suffix(day)
GetOrdinalSuffix(day) ==
    IF 10 <= day % 100 /\ day % 100 <= 20 THEN "th"
    ELSE IF day % 10 = 1 THEN "st"
    ELSE IF day % 10 = 2 THEN "nd"
    ELSE IF day % 10 = 3 THEN "rd"
    ELSE "th"

\* the date components the filler inserts, date being [year, month, day]
DateTexts(date) ==
    [day_text |-> IntStr(date.day) \o GetOrdinalSuffix(date.day),
     month_text |-> MonthNames[date.month],
     year_text |-> LastTwo(IntStr(date.year)),
     date_text |-> "before the " \o IntStr(date.day) \o " day of "
                   \o MonthNames[date.month] \o " " \o IntStr(date.year)]

\* the outcome of page.extract_words(): the words, or an exception
Extracted(words) == [raised |-> FALSE, words |-> words]
ExtractionRaised == [raised |-> TRUE, words |-> <<>>]

\* determine_date_field_type(page, x, y, word_text):  except Exception:
\* return 'day'
DetermineDateFieldTypeCall(extraction, x, y) ==
    IF extraction.raised THEN "day"
    ELSE DetermineDateFieldType(extraction.words, x, y)

\* one insertion into the opened document
Drawn(page_num, what, sig_loc, point, text, fontsize, fontname) ==
    [page |-> page_num, what |-> what, type |-> sig_loc.placeholder_type,
     x |-> sig_loc.x, y |-> sig_loc.y,
     px |-> point[1], py |-> point[2], text |-> text, fontsize |-> fontsize,
     fontname |-> fontname]

\* a copy that does not skip the date fields
CopiedTypesWithDates ==
    {"signature", "checkbox", "parentheses_personally_delivering", "parentheses_posting",
     "day_blank", "month_blank", "year_blank", "date_blank", "date"}

\* the placeholder types copied from page 1 onto a later page without candidates
CopiedTypes ==
    {"signature", "checkbox", "parentheses_personally_delivering", "parentheses_posting"}

\* page_signatures of page page_num (0-based), after the copy from page 1
PageSignatures(signature_locations, page_num) ==
    LET own == SelectSeq(signature_locations, LAMBDA loc : loc.page = page_num)
        page_0_signatures == SelectSeq(signature_locations, LAMBDA loc : loc.page = 0)
        kept == SelectSeq(page_0_signatures,
                          LAMBDA sig : sig.placeholder_type \in CopiedTypes)
    IN  IF own = <<>> /\ page_num > 0 /\ page_0_signatures # <<>>
        THEN [k \in 1..Len(kept) |-> [kept[k] EXCEPT !.page = page_num]]
        ELSE own

\* should_check of an existing checkbox
ShouldCheckExisting(checkbox_type, service_method) ==
    IF service_method = None \/ service_method = "" THEN FALSE
    ELSE IF service_method = PersonallyDelivering THEN checkbox_type = "personally_delivering"
    ELSE IF service_method = Posting THEN checkbox_type = "posting"
    ELSE FALSE

\* should_check of a checkbox to be drawn
ShouldCheckNew(checkbox_service_method, service_method) ==
    IF service_method = None \/ service_method = "" THEN FALSE
    ELSE IF Contains(checkbox_service_method, "personally delivering")
            /\ Contains(service_method, "personally delivering") THEN TRUE
    ELSE Contains(checkbox_service_method, "posting") /\ Contains(service_method, "posting")

\* the placeholder types with a branch of their own in the filler; every other
\* type is filled as a signature
DateTypes == {"date", "day_blank", "month_blank", "year_blank", "date_blank"}

IsSignatureFill(sig_loc) ==
    sig_loc.placeholder_type \notin DateTypes \cup {"checkbox", "existing_checkbox"}

\* the insertions one candidate produces; signature_font is the first face
\* that accepts the text (None when every face raises)
FillLocation(sig_loc, page_num, extraction, signature_name, service_method, signature_font, texts) ==
    LET t == sig_loc.placeholder_type
        date_size == Max2(sig_loc.font_size - 3, 8)
        date_point == CalculateTextPosition(sig_loc.x, sig_loc.y, t)
        date_kind == IF sig_loc.text = "Day" THEN "day"
                     ELSE IF sig_loc.text = "Month" THEN "month"
                     ELSE IF sig_loc.text = "--" THEN "year" ELSE "date"
        date_field_type == DetermineDateFieldTypeCall(extraction, sig_loc.x, sig_loc.y)
        TextOf(kind) == IF kind = "day" THEN texts.day_text
                        ELSE IF kind = "month" THEN texts.month_text
                        ELSE IF kind = "year" THEN texts.year_text
                        ELSE texts.date_text
        checkbox_size == Max2(Max2(sig_loc.width, sig_loc.height), 12)
    IN  IF t = "date"
        THEN << Drawn(page_num, date_kind, sig_loc, date_point, TextOf(date_kind),
                      date_size, "helv") >>
        ELSE IF t = "day_blank"
        THEN << Drawn(page_num, "day", sig_loc, date_point, texts.day_text, date_size, "helv") >>
        ELSE IF t = "month_blank"
        THEN << Drawn(page_num, "month", sig_loc, date_point, texts.month_text, date_size, "helv") >>
        ELSE IF t = "year_blank"
        THEN << Drawn(page_num, "year", sig_loc, date_point, texts.year_text, date_size, "helv") >>
        ELSE IF t = "date_blank"
        THEN << Drawn(page_num, date_field_type, sig_loc, date_point,
                      TextOf(date_field_type), date_size, "helv") >>
        ELSE IF t = "checkbox"
        \* sig_loc.get('service_method', ''): no candidate carries the key
        THEN IF ShouldCheckNew("", service_method)
             THEN << Drawn(page_num, "new_checkbox", sig_loc, <<sig_loc.x, sig_loc.y>>,
                           "X", 12, "") >>
             ELSE <<>>
        ELSE IF t = "existing_checkbox"
        THEN IF ShouldCheckExisting(sig_loc.checkbox_type, service_method)
             THEN << Drawn(page_num,
                           IF Strip(sig_loc.text) = "." \/ Contains(sig_loc.text, "(.)")
                           THEN "circle" ELSE "check",
                           sig_loc, <<sig_loc.x, sig_loc.y>>, "", checkbox_size, "") >>
             ELSE <<>>
        ELSE << Drawn(page_num, "signature", sig_loc,
                      IF sig_loc.y < 350 THEN <<sig_loc.x, sig_loc.y - 13>>
                      ELSE <<sig_loc.x, sig_loc.y>>,
                      CreateHandwrittenSignature(signature_name),
                      Max2(sig_loc.font_size + 2, 14), signature_font) >>

\* the first face of FontNames that is not in the set  unavailable, or None
FirstAvailableFont(unavailable) ==
    LET ok == {k \in 1..Len(FontNames) : FontNames[k] \notin unavailable}
    IN  IF ok = {} THEN None ELSE FontNames[MinOf(ok)]

RECURSIVE FillLocations(_, _, _, _, _, _, _, _)
\* the loop  for sig_loc in page_signatures, from the k-th candidate on:
\* the insertions made, and whether the loop raised the font error
FillLocations(page_signatures, k, page_num, extraction, signature_name, service_method, signature_font, texts) ==
    IF k > Len(page_signatures) THEN [drawn |-> <<>>, raised |-> FALSE]
    ELSE IF IsSignatureFill(page_signatures[k]) /\ signature_font = None
    THEN [drawn |-> <<>>, raised |-> TRUE]
    ELSE LET rest == FillLocations(page_signatures, k + 1, page_num, extraction,
                                   signature_name, service_method, signature_font, texts)
         IN  [drawn |-> FillLocation(page_signatures[k], page_num, extraction, signature_name,
                                     service_method, signature_font, texts) \o rest.drawn,
              raised |-> rest.raised]

(***************************************************************************)
(* The inputs: uploaded documents, template files, the fill context.       *)
(* An uploaded document is [name, readable, features, pages]; pages is a   *)
(* sequence of pages, each the set of LineCatalog lines it carries.        *)
(***************************************************************************)
\* the summaries of the three template files
InstalledTemplates ==
    [t \in Range(TemplateNames) |->
        Analysed(
            IF t = "Florida Template"
            THEN Features(1, 300, TRUE, {"florida"}, {"notice to pay", "three day notice"})
            ELSE IF t = "Georgia Template"
            THEN Features(1, 250, TRUE, {"georgia"}, {"demand for possession"})
            ELSE Features(2, 400, TRUE, {"alabama"},
                          {"notice of termination", "seven day notice"}))]

\* what the matcher may find on disk
Installations ==
    { InstalledTemplates,
      [InstalledTemplates EXCEPT !["Florida Template"] = NotAnalysed("missing")],
      [InstalledTemplates EXCEPT !["Florida Template"] = NotAnalysed("missing"),
                                 !["Georgia Template"] = NotAnalysed("None"),
                                 !["Alabama Template"] = NotAnalysed("missing")] }

\* the summaries an uploaded document of n pages may have: one per state,
\* and one of a document that is no demand letter
UploadFeatures(n) ==
    { Features(n, 320, TRUE, {"florida"}, {"three day notice"}),
      Features(n, 260, TRUE, {"georgia"}, {"demand for possession"}),
      Features(n, 410, TRUE, {"alabama"}, {"notice of termination", "seven day notice"}),
      Features(n, 5000, FALSE, {}, {}) }

\* the pages after the first carry at most one of these lines
LaterLines == {3, 7}

LaterPages == {{}} \cup {{l} : l \in LaterLines}

\* the lines the first page of an explored document is made of
ExploredLines == 1..10

FirstPages == {ls \in SUBSET ExploredLines : Cardinality(ls) <= MaxLines}

\* the page sequences of 1..MaxPages pages
RECURSIVE PageSeqs(_)
PageSeqs(n) ==
    IF n = 1 THEN {<<p>> : p \in FirstPages}
    ELSE {Append(ps, p) : ps \in PageSeqs(n - 1), p \in LaterPages}

ExploredPages == UNION {PageSeqs(n) : n \in 1..MaxPages}

Doc(name, readable, features, pages) ==
    [name |-> name, readable |-> readable, features |-> features, pages |-> pages]

\* every readable document over the explored pages, and one that cannot be parsed
ExploredDocs ==
    {Doc("upload.pdf", TRUE, f, ps) : <<ps, f>> \in
        UNION {PageSeqs(n) \X UploadFeatures(n) : n \in 1..MaxPages}}
    \cup {Doc("broken.pdf", FALSE, NoFeatures, <<>>)}

\* the documents batches are made of
BatchCatalog ==
    { Doc("broken.pdf", FALSE, NoFeatures, <<>>),
      Doc("other.pdf", TRUE, Features(1, 5000, FALSE, {}, {}), <<{1}>>),
      Doc("empty.pdf", TRUE, Features(1, 260, TRUE, {"georgia"}, {"demand for possession"}),
          <<{10}>>),
      Doc("florida.pdf", TRUE, Features(1, 320, TRUE, {"florida"}, {"three day notice"}),
          <<{1, 2, 3}>>),
      Doc("alabama.pdf", TRUE,
          Features(2, 410, TRUE, {"alabama"}, {"notice of termination", "seven day notice"}),
          <<{2}, {}>>) }

RECURSIVE SeqsUpTo(_, _)
\* the non-empty sequences over S of length at most n
SeqsUpTo(S, n) ==
    IF n = 1 THEN {<<e>> : e \in S}
    ELSE SeqsUpTo(S, n - 1) \cup {Append(q, e) : q \in SeqsUpTo(S, n - 1), e \in S}

\* a date is [year, month, day]
Date(year, month, day) == [year |-> year, month |-> month, day |-> day]

\* the date the documents of Spec and SpecBatch are filled on
SampleDate == Date(2024, 3, 3)

IsLeap(year) == (year % 4 = 0 /\ year % 100 # 0) \/ year % 400 = 0

DaysIn(year, month) ==
    IF month = 2 THEN (IF IsLeap(year) THEN 29 ELSE 28)
    ELSE IF month \in {4, 6, 9, 11} THEN 30 ELSE 31

\* the calendar dates of the explored years, as datetime yields them
ExploredDates ==
    {Date(y, m, d) : <<y, m, d>> \in
        {t \in {2005, 2024, 2025} \X (1..12) \X (1..31) : t[3] <= DaysIn(t[1], t[2])}}

\* the service methods create_signed_pdf_simple may be called with
ServiceMethods == {PersonallyDelivering, Posting, "By certified mail", None}

(***************************************************************************)
(* The state.                                                              *)
(***************************************************************************)
VARIABLES
    unit_call,            \* a direct call of extract_unit_info_from_page: its
                          \* arguments, and how it ended
    signature_name,       \* the signer name typed in the sidebar
    service_method,       \* the service method passed to the filler
    fill_date,            \* the date the filler writes: [year, month, day]
    page_extracts,        \* whether extract_words() of a page of the opened
                          \* document returns its words, or raises
    uploaded_files,       \* the batch, in upload order
    template_files,       \* what is on disk for each registered template
    pc,                   \* where main() is
    file_idx,             \* the 1-based index of the document being processed
    uploaded_features,    \* analyze_pdf_structure's result for it: [status, value]
    matched_template,     \* match_pdf_to_template's result for it
    match_score,
    unit_number,          \* extract_unit_info's result for it
    signature_locations,  \* find_signature_placeholders_simple's result for it
    signature_font,       \* the first face PyMuPDF accepts in this call, or None
    open_docs,            \* the PyMuPDF documents opened and not yet closed
    temp_files,           \* the temporary files created and not yet deleted
    page_num,             \* the 0-based page the filler or the exporter is at
    drawn,                \* the insertions made into the opened document
    individual_pdfs,      \* the per-page outputs built so far
    processed_pages,      \* create_signed_pdf_simple's result: [status, value],
                          \* status "list" with the per-page outputs, or "None"
    processed_files,      \* the batch's output entries
    reports,              \* the errors shown to the user: <<file_idx, kind>>
    calls                 \* the functions invoked so far: <<file_idx, function>>

inputs == <<signature_name, service_method, fill_date, page_extracts, uploaded_files,
            template_files>>
docvars == <<uploaded_features, matched_template, match_score, unit_number,
             signature_locations>>
fillvars == <<signature_font, open_docs, page_num, drawn, individual_pdfs,
              processed_pages>>
vars == <<unit_call, inputs, docvars, fillvars, temp_files, pc, file_idx, processed_files,
          reports, calls>>

Unset == "unset"

\* the filler's result: the list of per-page outputs, or none
PageList(pdfs) == [status |-> "list", value |-> pdfs]
NoPages(status) == [status |-> status, value |-> <<>>]

\* a call of the identifier extractor: arguments and outcome
UnitCall(pdf_path_or_bytes, template_name, page_number, outcome) ==
    [pdf_path_or_bytes |-> pdf_path_or_bytes, template_name |-> template_name,
     page_number |-> page_number, status |-> outcome.status, value |-> outcome.value]

Pending == [status |-> "pending", value |-> ""]

\* no direct call is examined
NoUnitCall == UnitCall(Argument("bytes", FALSE, <<>>, {}), None, 0, [status |-> "none", value |-> ""])

InitRest ==
    /\ pc = "idle"
    /\ file_idx = 0
    /\ uploaded_features = NotAnalysed(Unset)
    /\ matched_template = Unset
    /\ match_score = 0
    /\ unit_number = Unset
    /\ signature_locations = <<>>
    /\ signature_font = Unset
    /\ open_docs = {}
    /\ temp_files = {}
    /\ page_num = 0
    /\ drawn = <<>>
    /\ individual_pdfs = <<>>
    /\ processed_pages = NoPages(Unset)
    /\ processed_files = <<>>
    /\ reports = <<>>
    /\ calls = {}

\* one uploaded document, every service method
Init ==
    /\ \E d \in ExploredDocs : uploaded_files = <<d>>
    /\ signature_name = "Jane Q. Public"
    /\ service_method \in ServiceMethods
    /\ fill_date = SampleDate
    /\ template_files = InstalledTemplates
    /\ unit_call = NoUnitCall
    /\ page_extracts = TRUE
    /\ InitRest

\* the sidebar's settings and the installation a batch is run with
BatchContexts ==
    {[signature_name |-> n, service_method |-> Posting, template_files |-> InstalledTemplates] :
        n \in {"", "Cher"}}
    \cup {[signature_name |-> "Jane Q. Public", service_method |-> PersonallyDelivering,
           template_files |-> t] : t \in Installations}

\* a batch of catalogued documents, the fill context main() can supply
InitBatch ==
    /\ uploaded_files \in SeqsUpTo(BatchCatalog, MaxDocs)
    /\ \E c \in BatchContexts :
           /\ signature_name = c.signature_name
           /\ service_method = c.service_method
           /\ template_files = c.template_files
    /\ fill_date = SampleDate
    /\ unit_call = NoUnitCall
    /\ page_extracts = TRUE
    /\ InitRest

\* the summaries the matcher is explored on
MatchFeatures ==
    {Features(n, w, kw, st, ph) :
        n \in {1, 2, 5}, w \in {275, 410, 5000}, kw \in BOOLEAN,
        st \in {{}, {"florida"}, {"georgia"}, {"alabama"}, {"florida", "georgia"},
                {"georgia", "alabama"}},
        ph \in {{}, {"notice of termination"}, {"three day notice", "demand for possession"}}}

\* every subset of the template files on disk
MatchInstallations ==
    {[t \in Range(TemplateNames) |->
         IF t \in here THEN InstalledTemplates[t] ELSE NotAnalysed("missing")] :
     here \in SUBSET Range(TemplateNames)}

\* one document per explored summary: a checkbox line on its first page
InitMatch ==
    /\ \E f \in MatchFeatures :
           uploaded_files =
               <<Doc("scored.pdf", TRUE, f, [i \in 1..f.page_count |-> IF i = 1 THEN {2} ELSE {}])>>
    /\ signature_name = "Jane Q. Public"
    /\ service_method = Posting
    /\ template_files \in MatchInstallations
    /\ fill_date = SampleDate
    /\ unit_call = NoUnitCall
    /\ page_extracts = TRUE
    /\ InitRest

\* summaries at every distance from the templates' page and word counts
ProximityFeatures ==
    {Features(n, w, kw, st, ph) :
        n \in 1..4, w \in {200, 300, 399, 400, 799, 800, 1299, 1300}, kw \in BOOLEAN,
        st \in {{}, {"florida"}, {"alabama"}},
        ph \in {{}, {"notice to pay", "three day notice"}, {"seven day notice"}}}

\* the three template files, the three with one that cannot be analysed, or
\* one of them alone
ProximityInstallations ==
    {InstalledTemplates,
     [InstalledTemplates EXCEPT !["Florida Template"] = NotAnalysed("None")]}
    \cup {[t \in Range(TemplateNames) |->
              IF t = only THEN InstalledTemplates[t] ELSE NotAnalysed("missing")] :
          only \in Range(TemplateNames)}

\* one document per summary: a checkbox line on its first page
InitProximity ==
    /\ \E f \in ProximityFeatures :
           uploaded_files =
               <<Doc("scored.pdf", TRUE, f, [i \in 1..f.page_count |-> IF i = 1 THEN {2} ELSE {}])>>
    /\ signature_name = "Jane Q. Public"
    /\ service_method = Posting
    /\ template_files \in ProximityInstallations
    /\ fill_date = SampleDate
    /\ unit_call = NoUnitCall
    /\ page_extracts = TRUE
    /\ InitRest

\* the pages with tokens that share a position
OverlaidPages == {{11}, {12}, {11, 12}, {2, 11}, {5, 12}, {1, 3, 11}}

\* documents of one or two pages with tokens that share a position
InitOverlaid ==
    /\ \E p \in OverlaidPages, q \in OverlaidPages \cup {{}, {3}}, two \in BOOLEAN :
           uploaded_files =
               <<Doc("overlaid.pdf", TRUE,
                     Features(IF two THEN 2 ELSE 1, 320, TRUE, {"florida"}, {"three day notice"}),
                     IF two THEN <<p, q>> ELSE <<p>>)>>
    /\ signature_name = "Jane Q. Public"
    /\ service_method \in {PersonallyDelivering, Posting}
    /\ template_files = InstalledTemplates
    /\ fill_date = SampleDate
    /\ unit_call = NoUnitCall
    /\ page_extracts = TRUE
    /\ InitRest

\* the lines around the two cutoffs of the top region
PlacedLines == {1, 8, 10, 23, 24, 25, 26}

\* a one-page document with at most two lines around the cutoffs
InitPlaced ==
    /\ \E ls \in {q \in SUBSET PlacedLines : Cardinality(q) \in 1..2}, f \in UploadFeatures(1) :
           uploaded_files = <<Doc("placed.pdf", TRUE, f, <<ls>>)>>
    /\ signature_name = "Jane Q. Public"
    /\ service_method = Posting
    /\ template_files = InstalledTemplates
    /\ fill_date = SampleDate
    /\ unit_call = NoUnitCall
    /\ page_extracts = TRUE
    /\ InitRest

\* the lines that differ only in the glyph at their head
GlyphLines == 27..32

\* a two-page document with one glyph line on each page
InitGlyph ==
    /\ \E a \in GlyphLines, b \in GlyphLines, f \in UploadFeatures(2) :
           uploaded_files = <<Doc("glyphs.pdf", TRUE, f, <<{a}, {b}>>)>>
    /\ signature_name = "Jane Q. Public"
    /\ service_method \in {PersonallyDelivering, Posting}
    /\ template_files = InstalledTemplates
    /\ fill_date = SampleDate
    /\ unit_call = NoUnitCall
    /\ page_extracts = TRUE
    /\ InitRest

\* a document with date blanks, filled on every explored date
InitDate ==
    /\ \E ls \in {{6}, {7}, {1, 6}} :
           uploaded_files = <<Doc("dated.pdf", TRUE,
                                  Features(1, 260, TRUE, {"georgia"}, {"demand for possession"}),
                                  <<ls>>)>>
    /\ signature_name = "Jane Q. Public"
    /\ service_method = Posting
    /\ template_files = InstalledTemplates
    /\ fill_date \in ExploredDates
    /\ unit_call = NoUnitCall
    /\ page_extracts = TRUE
    /\ InitRest

(***************************************************************************)
(* main(): the batch loop, one action per step of the pipeline.            *)
(***************************************************************************)
CurrentFile == uploaded_files[file_idx]

Report(kind) == Append(reports, <<file_idx, kind>>)

\* a loop that a document's end leaves instead of continuing
NextFileLeavesLoop == pc' = "results" /\ file_idx' = file_idx

\* the loop's  continue : on to the next uploaded file, or out of the loop
NextFile ==
    IF file_idx < Len(uploaded_files)
    THEN pc' = "analyze" /\ file_idx' = file_idx + 1
    ELSE pc' = "results" /\ file_idx' = file_idx

\* a button that starts the batch whatever the signer name is
PressButtonUnchecked ==
    /\ pc = "idle"
    /\ reports' = reports
    /\ pc' = "analyze"
    /\ file_idx' = 1
    /\ UNCHANGED <<unit_call, inputs, docvars, fillvars, temp_files, processed_files, calls>>

\* the button "Add Signatures to PDFs"
PressButton ==
    /\ pc = "idle"
    /\ IF signature_name = ""
       THEN /\ reports' = Append(reports, <<0, "Please enter a signer name">>)
            /\ pc' = "returned"
            /\ file_idx' = file_idx
       ELSE /\ reports' = reports
            /\ pc' = "analyze"
            /\ file_idx' = 1
    /\ UNCHANGED <<unit_call, inputs, docvars, fillvars, temp_files, processed_files, calls>>

\* uploaded_features = analyze_pdf_structure(pdf_bytes)
AnalyzeDocument ==
    /\ pc = "analyze"
    /\ calls' = calls \cup {<<file_idx, "analyze_pdf_structure">>}
    /\ IF CurrentFile.readable
       THEN /\ uploaded_features' = Analysed(CurrentFile.features)
            /\ reports' = reports
            /\ pc' = "match"
            /\ file_idx' = file_idx
       ELSE /\ uploaded_features' = NotAnalysed("None")
            /\ reports' = Report("Could not analyze")
            /\ NextFile
    /\ UNCHANGED <<unit_call, inputs, matched_template, match_score, unit_number,
                   signature_locations, fillvars, temp_files, processed_files>>

\* a matcher whose best_score outlives the call
MatchDocumentRemembering ==
    /\ pc = "match"
    /\ calls' = calls \cup {<<file_idx, "match_pdf_to_template">>}
    /\ LET fresh == MatchPdfToTemplate(uploaded_features.value, template_files)
           m == IF fresh[2] > match_score THEN fresh ELSE <<None, match_score>>
       IN  /\ matched_template' = m[1]
           /\ match_score' = m[2]
           /\ IF MatchAccepted(m[1], m[2])
              THEN /\ reports' = reports
                   /\ pc' = "classify"
                   /\ file_idx' = file_idx
              ELSE /\ reports' = Report("Could not match to any template")
                   /\ NextFile
    /\ UNCHANGED <<unit_call, inputs, uploaded_features, unit_number, signature_locations,
                   fillvars, temp_files, processed_files>>

\* matched_template, match_score = match_pdf_to_template(uploaded_features)
MatchDocument ==
    /\ pc = "match"
    /\ calls' = calls \cup {<<file_idx, "match_pdf_to_template">>}
    /\ LET m == MatchPdfToTemplate(uploaded_features.value, template_files)
       IN  /\ matched_template' = m[1]
           /\ match_score' = m[2]
           /\ IF MatchAccepted(m[1], m[2])
              THEN /\ reports' = reports
                   /\ pc' = "classify"
                   /\ file_idx' = file_idx
              ELSE /\ reports' = Report("Could not match to any template")
                   /\ NextFile
    /\ UNCHANGED <<unit_call, inputs, uploaded_features, unit_number, signature_locations,
                   fillvars, temp_files, processed_files>>

\* a caller that invokes the filler whatever the classifier returned
ClassifyDocumentAlwaysFills ==
    /\ pc = "classify"
    /\ calls' = calls \cup {<<file_idx, "extract_unit_info">>,
                            <<file_idx, "find_signature_placeholders_simple">>}
    /\ unit_number' = ExtractUnitInfoFromPage(CurrentFile.pages, matched_template, 0)
    /\ signature_locations' = ExtractPlaceholders(CurrentFile.pages, matched_template)
    /\ reports' = reports
    /\ pc' = "fill_open"
    /\ file_idx' = file_idx
    /\ UNCHANGED <<unit_call, inputs, uploaded_features, matched_template, match_score,
                   fillvars, temp_files, processed_files>>

\* a classifier whose list outlives the call and is appended to by the next
ClassifyDocumentAccumulating ==
    /\ pc = "classify"
    /\ calls' = calls \cup {<<file_idx, "extract_unit_info">>,
                            <<file_idx, "find_signature_placeholders_simple">>}
    /\ unit_number' = ExtractUnitInfoFromPage(CurrentFile.pages, matched_template, 0)
    /\ signature_locations' =
           signature_locations \o ExtractPlaceholders(CurrentFile.pages, matched_template)
    /\ IF signature_locations' # <<>>
       THEN /\ reports' = reports
            /\ pc' = "fill_open"
            /\ file_idx' = file_idx
       ELSE /\ reports' = Report("No signature placeholders found")
            /\ NextFile
    /\ UNCHANGED <<unit_call, inputs, uploaded_features, matched_template, match_score,
                   fillvars, temp_files, processed_files>>

\* unit_number = extract_unit_info(...) ; signature_locations =
\* find_signature_placeholders_simple(pdf_bytes, matched_template)
ClassifyDocument ==
    /\ pc = "classify"
    /\ calls' = calls \cup {<<file_idx, "extract_unit_info">>,
                            <<file_idx, "find_signature_placeholders_simple">>}
    /\ unit_number' = ExtractUnitInfoFromPage(CurrentFile.pages, matched_template, 0)
    /\ signature_locations' = ExtractPlaceholders(CurrentFile.pages, matched_template)
    /\ IF signature_locations' # <<>>
       THEN /\ reports' = reports
            /\ pc' = "fill_open"
            /\ file_idx' = file_idx
       ELSE /\ reports' = Report("No signature placeholders found")
            /\ NextFile
    /\ UNCHANGED <<unit_call, inputs, uploaded_features, matched_template, match_score,
                   fillvars, temp_files, processed_files>>

\* create_signed_pdf_simple, up to  doc = fitz.open(...).  The faces PyMuPDF
\* rejects in this call are the environment's choice; they are looked at only
\* when some candidate is filled as a signature.
FillOpen ==
    /\ pc = "fill_open"
    /\ calls' = calls \cup {<<file_idx, "create_signed_pdf_simple">>}
    /\ IF \E k \in 1..Len(signature_locations) : IsSignatureFill(signature_locations[k])
       THEN \E unavailable \in SUBSET Range(FontNames) :
                signature_font' = FirstAvailableFont(unavailable)
       ELSE signature_font' = Unset
    /\ open_docs' = open_docs \cup {<<file_idx, "doc">>}
    /\ page_num' = 0
    /\ drawn' = <<>>
    /\ individual_pdfs' = <<>>
    /\ processed_pages' = NoPages(Unset)
    /\ pc' = "fill_page"
    /\ UNCHANGED <<unit_call, inputs, docvars, temp_files, file_idx, processed_files, reports>>

FontError == "Error creating signed PDF: Times New Roman font is required but not available"
SaveError == "Error creating signed PDF: cannot save the page"

\* a filling loop that rewrites the page index on the candidates themselves
\* instead of on copies
FillPageRewritingOriginals ==
    /\ pc = "fill_page"
    /\ LET filled == FillLocations(PageSignatures(signature_locations, page_num), 1,
                                   page_num,
                                   IF page_extracts
                                   THEN Extracted(WordsOfLines(CurrentFile.pages[page_num + 1]))
                                   ELSE ExtractionRaised,
                                   signature_name, service_method, signature_font,
                                   DateTexts(fill_date))
       IN  /\ drawn' = drawn \o filled.drawn
           /\ IF filled.raised
              THEN \* except Exception: the error is shown and None returned
                   /\ processed_pages' = NoPages("None")
                   /\ reports' = Report(FontError)
                   /\ page_num' = page_num
                   /\ pc' = "filled"
              ELSE /\ processed_pages' = processed_pages
                   /\ reports' = reports
                   /\ IF page_num + 1 < Len(CurrentFile.pages)
                      THEN page_num' = page_num + 1 /\ pc' = "fill_page"
                      ELSE page_num' = 0 /\ pc' = "export"
    /\ signature_locations' =
           IF page_num > 0 /\ \A k \in 1..Len(signature_locations) :
                                 signature_locations[k].page # page_num
           THEN [k \in 1..Len(signature_locations) |->
                    IF signature_locations[k].page = 0
                       /\ signature_locations[k].placeholder_type \in CopiedTypes
                    THEN [signature_locations[k] EXCEPT !.page = page_num]
                    ELSE signature_locations[k]]
           ELSE signature_locations
    /\ UNCHANGED <<unit_call, inputs, uploaded_features, matched_template, match_score,
                   unit_number, signature_font, open_docs, individual_pdfs,
                   temp_files, file_idx, processed_files, calls>>

\* one iteration of  for page_num in range(len(doc))  of the filling loop
FillPage ==
    /\ pc = "fill_page"
    /\ LET filled == FillLocations(PageSignatures(signature_locations, page_num), 1,
                                   page_num,
                                   IF page_extracts
                                   THEN Extracted(WordsOfLines(CurrentFile.pages[page_num + 1]))
                                   ELSE ExtractionRaised,
                                   signature_name, service_method, signature_font,
                                   DateTexts(fill_date))
       IN  /\ drawn' = drawn \o filled.drawn
           /\ IF filled.raised
              THEN \* except Exception: the error is shown and None returned
                   /\ processed_pages' = NoPages("None")
                   /\ reports' = Report(FontError)
                   /\ page_num' = page_num
                   /\ pc' = "filled"
              ELSE /\ processed_pages' = processed_pages
                   /\ reports' = reports
                   /\ IF page_num + 1 < Len(CurrentFile.pages)
                      THEN page_num' = page_num + 1 /\ pc' = "fill_page"
                      ELSE page_num' = 0 /\ pc' = "export"
    /\ UNCHANGED <<unit_call, inputs, docvars, signature_font, open_docs, individual_pdfs,
                   temp_files, file_idx, processed_files, calls>>

\* the export loop up to the temporary file: single_page_doc = fitz.open(),
\* insert_pdf, NamedTemporaryFile(delete=False)
ExportBegin ==
    /\ pc = "export"
    /\ open_docs' = open_docs \cup {<<file_idx, "single_page_doc">>}
    /\ temp_files' = temp_files \cup {<<file_idx, "page", page_num>>}
    /\ pc' = "export_save"
    /\ UNCHANGED <<unit_call, inputs, docvars, signature_font, page_num, drawn, individual_pdfs,
                   processed_pages, file_idx, processed_files, reports, calls>>

\* what the exported page holds: the insertions made on it, in order
PageData(insertions, page) == SelectSeq(insertions, LAMBDA d : d.page = page)

PageFileName(page) == "page_" \o CharAt(Digits, page + 2) \o ".pdf"

\* a wrong numbering of the outputs: the 0-based page index is kept
IndividualPdfZeroBased(page, insertions) ==
    [page_num |-> page, data |-> PageData(insertions, page),
     filename |-> PageFileName(page)]

\* the output appended for the 0-based page  page
IndividualPdf(page, insertions) ==
    [page_num |-> page + 1, data |-> PageData(insertions, page),
     filename |-> PageFileName(page)]

\* single_page_doc.save, the read back, and the two  finally  blocks
ExportSave ==
    /\ pc = "export_save"
    /\ temp_files' = temp_files \ {<<file_idx, "page", page_num>>}
    /\ \E saved \in BOOLEAN :
        IF saved
        THEN /\ individual_pdfs' = Append(individual_pdfs, IndividualPdf(page_num, drawn))
             /\ reports' = reports
             /\ IF page_num + 1 < Len(CurrentFile.pages)
                THEN /\ page_num' = page_num + 1
                     /\ open_docs' = open_docs \ {<<file_idx, "single_page_doc">>}
                     /\ processed_pages' = processed_pages
                     /\ pc' = "export"
                ELSE /\ page_num' = page_num
                     /\ open_docs' = open_docs \ {<<file_idx, "single_page_doc">>,
                                                  <<file_idx, "doc">>}
                     /\ processed_pages' = PageList(individual_pdfs')
                     /\ pc' = "filled"
        ELSE /\ individual_pdfs' = individual_pdfs
             /\ reports' = Report(SaveError)
             /\ page_num' = page_num
             /\ open_docs' = open_docs \ {<<file_idx, "single_page_doc">>,
                                          <<file_idx, "doc">>}
             /\ processed_pages' = NoPages("None")
             /\ pc' = "filled"
    /\ UNCHANGED <<unit_call, inputs, docvars, signature_font, drawn, file_idx, processed_files,
                   calls>>

\* the output entry of one page of the current document
FileEntry(page_info, n_pages) ==
    LET page_unit_number ==
            IF n_pages > 1
            THEN ExtractUnitInfoFromPage(CurrentFile.pages, matched_template,
                                         page_info.page_num - 1)
            ELSE unit_number
    IN  [name |-> "Unit" \o page_unit_number \o " Demand Letter <MM-DD-YYYY>.pdf",
         data |-> page_info.data,
         locations_found |-> Len(signature_locations),
         matched_template |-> matched_template,
         match_score |-> match_score,
         page_num |-> page_info.page_num,
         unit_number |-> page_unit_number]

\* an appending of the pages' entries last page first
AppendPagesLastFirst ==
    /\ pc = "filled"
    /\ IF processed_pages.status = "list" /\ processed_pages.value # <<>>
       THEN /\ processed_files' = processed_files \o
                    [k \in 1..Len(processed_pages.value) |->
                        FileEntry(processed_pages.value[Len(processed_pages.value) + 1 - k],
                                  Len(processed_pages.value))]
            /\ calls' = IF Len(processed_pages.value) > 1
                        THEN calls \cup {<<file_idx, "extract_unit_info_from_page">>}
                        ELSE calls
       ELSE /\ processed_files' = processed_files
            /\ calls' = calls
    /\ NextFile
    /\ UNCHANGED <<unit_call, inputs, docvars, fillvars, temp_files, reports>>

\* if processed_pages: one entry per page is appended to processed_files
AppendPages ==
    /\ pc = "filled"
    /\ IF processed_pages.status = "list" /\ processed_pages.value # <<>>
       THEN /\ processed_files' = processed_files \o
                    [k \in 1..Len(processed_pages.value) |->
                        FileEntry(processed_pages.value[k], Len(processed_pages.value))]
            /\ calls' = IF Len(processed_pages.value) > 1
                        THEN calls \cup {<<file_idx, "extract_unit_info_from_page">>}
                        ELSE calls
       ELSE /\ processed_files' = processed_files
            /\ calls' = calls
    /\ NextFile
    /\ UNCHANGED <<unit_call, inputs, docvars, fillvars, temp_files, reports>>

ZipFile == <<0, "zip", 0>>

\* after the loop: the archive's temporary file is created when there is output
ShowResults ==
    /\ pc = "results"
    /\ IF processed_files # <<>>
       THEN /\ temp_files' = temp_files \cup {ZipFile}
            /\ reports' = reports
            /\ pc' = "archive"
       ELSE /\ temp_files' = temp_files
            /\ reports' = Append(reports, <<0, "No files were successfully processed">>)
            /\ pc' = "done"
    /\ UNCHANGED <<unit_call, inputs, docvars, fillvars, file_idx, processed_files, calls>>

\* the archive is written, read back and its temporary file unlinked; an
\* error while writing leaves main()
WriteArchive ==
    /\ pc = "archive"
    /\ \E written \in BOOLEAN :
        IF written
        THEN temp_files' = temp_files \ {ZipFile} /\ pc' = "done"
        ELSE temp_files' = temp_files /\ pc' = "crashed"
    /\ UNCHANGED <<unit_call, inputs, docvars, fillvars, file_idx, processed_files, reports, calls>>

Next ==
    \/ PressButton
    \/ AnalyzeDocument
    \/ MatchDocument
    \/ ClassifyDocument
    \/ FillOpen
    \/ FillPage
    \/ ExportBegin
    \/ ExportSave
    \/ AppendPages
    \/ ShowResults
    \/ WriteArchive

\* one uploaded document, every fill context
Spec == Init /\ [][Next]_vars

\* the pages the identifier extractor is explored on
UnitPages == {{}, {13}, {14}, {15}, {16}, {1, 13}, {14, 16}}

\* the documents handed to it: other types, unreadable bytes, and readable
\* documents of zero to two pages, some of whose pages cannot be tokenised
UnitArguments ==
    {Argument(k, FALSE, <<>>, {}) : k \in {"NoneType", "missing_path", "BytesIO", "bytes", "path"}}
    \cup {Argument(k, TRUE, <<>>, {}) : k \in {"BytesIO", "path"}}
    \cup {Argument("BytesIO", TRUE, <<p>>, f) : p \in UnitPages, f \in SUBSET {1}}
    \cup {Argument("bytes", TRUE, <<p, q>>, f) : p \in UnitPages, q \in UnitPages, f \in {{}, {2}}}

UnitTemplateNames == Range(TemplateNames) \cup {None, "Texas Template"}

UnitPageNumbers == -3..3

\* a direct call with every explored argument, before it runs
InitUnit ==
    /\ \E a \in UnitArguments, t \in UnitTemplateNames, n \in UnitPageNumbers :
           unit_call = UnitCall(a, t, n, Pending)
    /\ signature_name = ""
    /\ service_method = None
    /\ fill_date = SampleDate
    /\ uploaded_files = <<>>
    /\ template_files = InstalledTemplates
    /\ page_extracts = TRUE
    /\ InitRest

\* the call runs
CallExtractUnitInfo ==
    /\ unit_call.status = "pending"
    /\ unit_call' = UnitCall(unit_call.pdf_path_or_bytes, unit_call.template_name,
                             unit_call.page_number,
                             ExtractUnitInfoCall(unit_call.pdf_path_or_bytes,
                                                 unit_call.template_name,
                                                 unit_call.page_number))
    /\ UNCHANGED <<inputs, docvars, fillvars, temp_files, pc, file_idx, processed_files,
                   reports, calls>>

NextUnit == CallExtractUnitInfo

\* direct calls of extract_unit_info_from_page
SpecUnit == InitUnit /\ [][NextUnit]_vars

\* the lines with a date context, and the offsets of a candidate from them
ContextLines == 17..22

ContextTop(line) == LineCatalog[line][1].top

CandidateXs == {150, 300, 350, 400}
CandidateDys == {-50, -49, 0, 49, 50}

\* a candidate handed to the filler by its caller: a blank of the given
\* placeholder_type at (x, y) of the 0-based page
Candidate(page, placeholder_type, x, y) ==
    Location(page, Tok(ShortBlank, x, y, 30), placeholder_type, "", "")

\* signature_locations of a direct call: one generic date blank near a
\* context line of the page
DateBlankCalls ==
    {[pages |-> <<{line}>>, signature_name |-> "Jane Q. Public",
      signature_locations |-> <<Candidate(0, "date_blank", x, ContextTop(line) + dy)>>] :
        line \in ContextLines, x \in CandidateXs, dy \in CandidateDys}

\* the signer names of the direct calls: one token, two, three and five,
\* with blanks and a tab around and between them
SignerNames ==
    {"Cher", " Cher", "Jane Public", "Jane Q. Public", "  Jane   Q.  Public ",
     "Jane\tPublic", "Mary Ann van der Berg"}

\* a signature candidate above or below the top region, filled for every name
SignatureCalls ==
    {[pages |-> <<{line}>>, signature_name |-> name,
      signature_locations |-> <<Candidate(0, "signature", 72, LineCatalog[line][1].top)>>] :
        line \in {1, 8}, name \in SignerNames}

\* documents of two and three pages with later pages that have no candidate
CopyPages ==
    {<<{1}, {}, {}>>, <<{1, 6}, {}, {}>>, <<{1, 2}, {}, {}>>, <<{1}, {3}, {}>>,
     <<{1}, {}, {7}>>, <<{8}, {}, {}>>, <<{1, 8}, {}>>, <<{7}, {}, {}>>}

\* the candidates the classifier returns for such a document
CopyCalls ==
    {[pages |-> ps, signature_name |-> "Jane Q. Public",
      signature_locations |-> ExtractPlaceholders(ps, t)] :
        ps \in CopyPages, t \in Range(TemplateNames)}

FillCalls == DateBlankCalls \cup SignatureCalls \cup CopyCalls

\* create_signed_pdf_simple called with a candidate list of the caller's
\* making, before it runs
InitFillCall ==
    /\ \E call \in FillCalls :
        /\ uploaded_files = <<Doc("notice.pdf", TRUE, NoFeatures, call.pages)>>
        /\ signature_locations = call.signature_locations
        /\ signature_name = call.signature_name
    /\ page_extracts \in BOOLEAN
    /\ unit_call = NoUnitCall
    /\ service_method = None
    /\ fill_date = SampleDate
    /\ template_files = InstalledTemplates
    /\ pc = "fill_open"
    /\ file_idx = 1
    /\ uploaded_features = NotAnalysed(Unset)
    /\ matched_template = Unset
    /\ match_score = 0
    /\ unit_number = Unset
    /\ signature_font = Unset
    /\ open_docs = {}
    /\ temp_files = {}
    /\ page_num = 0
    /\ drawn = <<>>
    /\ individual_pdfs = <<>>
    /\ processed_pages = NoPages(Unset)
    /\ processed_files = <<>>
    /\ reports = <<>>
    /\ calls = {}

\* the steps of create_signed_pdf_simple
NextFillCall == FillOpen \/ FillPage \/ ExportBegin \/ ExportSave

\* direct calls of create_signed_pdf_simple
SpecFillCall == InitFillCall /\ [][NextFillCall]_vars

\* batches of catalogued documents
SpecBatch == InitBatch /\ [][Next]_vars

\* one document per explored summary, every set of template files
SpecMatch == InitMatch /\ [][Next]_vars

\* one document per summary near and far from the templates
SpecProximity == InitProximity /\ [][Next]_vars

\* one document with tokens that share a position
SpecOverlaid == InitOverlaid /\ [][Next]_vars

\* one document with date blanks, every explored date
SpecDate == InitDate /\ [][Next]_vars

\* one document whose two pages differ at most in a glyph
SpecGlyph == InitGlyph /\ [][Next]_vars

\* one document with signature lines around y = 345 and y = 350
SpecPlaced == InitPlaced /\ [][Next]_vars

(***************************************************************************)
(* What the filler did in the current call, read off the state.            *)
(***************************************************************************)
\* the 0-based pages of the document being processed
PagesOfCurrent == 0..(Len(CurrentFile.pages) - 1)

\* create_signed_pdf_simple has ended for the current document
FillEnded == pc = "filled"

\* it ended by returning the per-page outputs
FillSucceeded == FillEnded /\ processed_pages.status = "list"

\* the candidates of page p the classifier tagged with  tag
Tagged(p, tag) ==
    {k \in 1..Len(signature_locations) :
        /\ signature_locations[k].page = p
        /\ signature_locations[k].placeholder_type = "existing_checkbox"
        /\ signature_locations[k].checkbox_type = tag}

\* a check or a filled circle was drawn on page p at the candidate's place
Marked(k, p) ==
    \E j \in 1..Len(drawn) :
        /\ drawn[j].what \in {"check", "circle"}
        /\ drawn[j].page = p
        /\ drawn[j].x = signature_locations[k].x
        /\ drawn[j].y = signature_locations[k].y

\* C1: when the filler has ended, on every page with both a
\* personally_delivering-tagged and a posting-tagged existing checkbox the
\* posting literal has marked the posting-tagged candidates and none of the
\* personally_delivering-tagged ones, the personally-delivering literal the
\* reverse, and no candidate tagged unknown is marked under any service method.
C1_CheckboxExclusivity ==
    FillEnded =>
        \A p \in PagesOfCurrent :
            LET pd == Tagged(p, "personally_delivering")
                po == Tagged(p, "posting")
            IN  /\ (pd # {} /\ po # {} /\ service_method = Posting) =>
                       /\ \A k \in po : Marked(k, p)
                       /\ \A k \in pd : ~Marked(k, p)
                /\ (pd # {} /\ po # {} /\ service_method = PersonallyDelivering) =>
                       /\ \A k \in pd : Marked(k, p)
                       /\ \A k \in po : ~Marked(k, p)
                /\ \A k \in Tagged(p, "unknown") : ~Marked(k, p)

\* the insertions made on page p
DrawnOn(p) == {j \in 1..Len(drawn) : drawn[j].page = p}

\* create_signed_pdf_simple is running or has just ended for the current document
InFill == pc \in {"fill_page", "export", "export_save", "filled"}

\* the kinds of insertion that write a part of the date
DateInsertions == {"day", "month", "year", "date"}

\* C2: when the filler has returned its outputs, on every page at most one
\* candidate is marked for each service-method category.
C2_OneMarkPerCategory ==
    FillSucceeded =>
        \A p \in PagesOfCurrent : \A tag \in {"personally_delivering", "posting"} :
            Cardinality({k \in Tagged(p, tag) : Marked(k, p)}) <= 1

\* the error shown for a document no template matches
NoMatch == "Could not match to any template"

\* the functions invoked so far for the j-th document of the batch
CallsFor(j) == {c[2] : c \in {d \in calls : d[1] = j}}

\* C3: a document whose best score is at most 20 is reported unmatched and the
\* loop moves on without an output entry; a document reported unmatched has had
\* no identifier extraction, classification or filling; output entries are
\* appended only for a document that was not reported unmatched; a score above
\* 20 goes on to classification.
C3_LowScoreUnmatched ==
    [][ /\ pc = "match" =>
               IF match_score' <= 20
               THEN /\ reports' = Append(reports, <<file_idx, NoMatch>>)
                    /\ pc' \in {"analyze", "results"}
                    /\ processed_files' = processed_files
               ELSE /\ reports' = reports
                    /\ pc' = "classify"
        /\ \A j \in 1..Len(uploaded_files) :
               <<j, NoMatch>> \in Range(reports') =>
                   CallsFor(j)' \subseteq {"analyze_pdf_structure", "match_pdf_to_template"}
        /\ processed_files' # processed_files =>
               <<file_idx, NoMatch>> \notin Range(reports') ]_vars

\* C3 happens: a document that scored exactly 20 against its best template
\* has been reported unmatched, after a document that produced output.
C3_Witness ==
    /\ match_score = 20
    /\ matched_template # None
    /\ \E j \in 2..Len(uploaded_files) : <<j, NoMatch>> \in Range(reports)
    /\ processed_files # <<>>
    /\ pc = "done"

\* C4: while a document matched to the Georgia template is filled, no day,
\* month or year text is inserted on any of its pages.
C4_GeorgiaHasNoDate ==
    (InFill /\ matched_template = "Georgia Template") =>
        \A j \in 1..Len(drawn) : drawn[j].what \notin DateInsertions

\* page p has no candidate of its own
NoOwnCandidates(p) ==
    \A k \in 1..Len(signature_locations) : signature_locations[k].page # p

\* C5: when the filler has returned its outputs, every later page without
\* candidates of its own carries each signature and each checkbox mark of the
\* first page, at the same place.
C5_CopyIncludesExistingCheckboxes ==
    FillSucceeded =>
        \A p \in PagesOfCurrent :
            (p > 0 /\ NoOwnCandidates(p)) =>
                \A j \in DrawnOn(0) :
                    drawn[j].what \in {"signature", "new_checkbox", "check", "circle"} =>
                        \E i \in DrawnOn(p) :
                            /\ drawn[i].what = drawn[j].what
                            /\ drawn[i].x = drawn[j].x
                            /\ drawn[i].y = drawn[j].y

\* C6: while a document is filled, a later page without candidates of its own
\* gets no day, month or year text, whatever date candidates page 1 carries.
C6_DatesNeverCopied ==
    InFill =>
        \A p \in PagesOfCurrent :
            (p > 0 /\ NoOwnCandidates(p)) =>
                \A j \in DrawnOn(p) : drawn[j].what \notin DateInsertions

\* C6 happens: the filler returned, page 1 carries date insertions, and page 2,
\* without candidates of its own, carries a copied signature.
C6_Witness ==
    /\ FillSucceeded
    /\ Len(CurrentFile.pages) = 2
    /\ NoOwnCandidates(1)
    /\ \E j \in DrawnOn(0) : drawn[j].what \in DateInsertions
    /\ \E j \in DrawnOn(1) : drawn[j].what = "signature"

\* the texts of the errors shown so far
ReportTexts == {reports[k][2] : k \in 1..Len(reports)}

\* C7: the font error is never shown, and a call of the filler whose pages
\* were all saved returns the per-page outputs.
C7_FontNeverFailsFill ==
    /\ FontError \notin ReportTexts
    /\ (FillEnded /\ SaveError \notin ReportTexts) => FillSucceeded

\* a is an initial part of b
IsPrefix(a, b) == Len(a) <= Len(b) /\ SubSeq(b, 1, Len(a)) = a

\* what becomes of document d when it is processed alone: fate is the error
\* shown for it, or "fill" when the filler is called on it; entries are its
\* output entries when the filler returns its outputs, without the pages'
\* contents
Alone(d) ==
    LET m == MatchPdfToTemplate(d.features, template_files)
        accepted == d.readable /\ MatchAccepted(m[1], m[2])
        locs == IF accepted THEN ExtractPlaceholders(d.pages, m[1]) ELSE <<>>
        n == Len(d.pages)
    IN  IF ~d.readable THEN [fate |-> "Could not analyze", entries |-> <<>>]
        ELSE IF ~accepted THEN [fate |-> NoMatch, entries |-> <<>>]
        ELSE IF locs = <<>>
        THEN [fate |-> "No signature placeholders found", entries |-> <<>>]
        ELSE [fate |-> "fill",
              entries |-> <<>> \o [k \in 1..n |->
                  LET unit == ExtractUnitInfoFromPage(d.pages, m[1],
                                                      IF n > 1 THEN k - 1 ELSE 0)
                  IN  [name |-> "Unit" \o unit \o " Demand Letter <MM-DD-YYYY>.pdf",
                       locations_found |-> Len(locs),
                       matched_template |-> m[1],
                       match_score |-> m[2],
                       page_num |-> k,
                       unit_number |-> unit]]]

\* the filler failed on the j-th document, reps being the errors shown
FillFailed(j, reps) == <<j, FontError>> \in Range(reps) \/ <<j, SaveError>> \in Range(reps)

\* the entries the j-th document contributes, alone being what becomes of it
\* when it is processed alone
Outcome(j, alone, reps) ==
    IF alone.fate = "fill" /\ ~FillFailed(j, reps) THEN alone.entries ELSE <<>>

\* an output entry without the page's contents
Meta(e) ==
    [name |-> e.name, locations_found |-> e.locations_found,
     matched_template |-> e.matched_template, match_score |-> e.match_score,
     page_num |-> e.page_num, unit_number |-> e.unit_number]

\* the step that ends the loop's iteration for the current document
DocumentEnds ==
    pc \in {"analyze", "match", "classify", "filled"} /\ pc' \in {"analyze", "results"}

\* C8: the output entries and the errors shown are only ever appended to; and
\* when the loop is done with a document, whatever the documents before it
\* did, that document was analyzed, went as far through matching,
\* classification and filling as it does alone, added exactly its own entries
\* to the output, and the loop goes on to the next document if there is one.
C8_BatchIsolation ==
    [][ /\ IsPrefix(processed_files, processed_files')
        /\ IsPrefix(reports, reports')
        /\ DocumentEnds =>
               LET alone == Alone(CurrentFile)
                   added == SubSeq(processed_files', Len(processed_files) + 1,
                                   Len(processed_files'))
               IN  /\ <<file_idx, "analyze_pdf_structure">> \in calls'
                   /\ IF alone.fate = "fill"
                      THEN <<file_idx, "create_signed_pdf_simple">> \in calls'
                      ELSE /\ <<file_idx, alone.fate>> \in Range(reports')
                           /\ <<file_idx, "create_signed_pdf_simple">> \notin calls'
                   /\ [k \in 1..Len(added) |-> Meta(added[k])]
                          = Outcome(file_idx, alone, reports')
                   /\ IF file_idx < Len(uploaded_files)
                      THEN pc' = "analyze" /\ file_idx' = file_idx + 1
                      ELSE pc' = "results" ]_vars

\* C8 happens: a batch whose first document produced output, whose second
\* failed and whose last produced output again.
C8_Witness ==
    /\ pc = "done"
    /\ Len(uploaded_files) = 3
    /\ Outcome(1, Alone(uploaded_files[1]), reports) # <<>>
    /\ Outcome(2, Alone(uploaded_files[2]), reports) = <<>>
    /\ Outcome(3, Alone(uploaded_files[3]), reports) # <<>>
    /\ Len(processed_files) = Len(uploaded_files[1].pages) + Len(uploaded_files[3].pages)

\* C9: once the filler has ended no document handle is open and no temporary
\* file is left, and once main() has ended no temporary file is left.
C9_ResourcesReleased ==
    /\ FillEnded => (open_docs = {} /\ temp_files = {})
    /\ pc \in {"done", "crashed"} => temp_files = {}

\* C10: when the filler returns its outputs for a document of n pages, it
\* returns n of them, the k-th numbered k and holding the k-th page.
C10_OnePerPage ==
    FillSucceeded =>
        /\ Len(processed_pages.value) = Len(CurrentFile.pages)
        /\ Len(processed_pages.value) >= 1
        /\ \A k \in 1..Len(processed_pages.value) :
               /\ processed_pages.value[k].page_num = k
               /\ processed_pages.value[k].data = PageData(drawn, k - 1)

\* C10 happens: two outputs are returned and one of the pages got no insertion.
C10_Witness ==
    /\ FillSucceeded
    /\ Len(processed_pages.value) = 2
    /\ processed_pages.value[1].data # <<>>
    /\ processed_pages.value[2].data = <<>>

\* C10 on a single page: a one-element list.
C10_WitnessSinglePage ==
    FillSucceeded /\ Len(CurrentFile.pages) = 1 /\ Len(processed_pages.value) = 1

(***************************************************************************)
(* C11  Date formatting.                                                   *)
(***************************************************************************)
\* the decimal numerals of the days of a month
DayNumerals ==
    <<"1", "2", "3", "4", "5", "6", "7", "8", "9", "10", "11", "12", "13", "14", "15", "16",
      "17", "18", "19", "20", "21", "22", "23", "24", "25", "26", "27", "28", "29", "30", "31">>

\* the English ordinal suffix of a day of the month
EnglishSuffix(d) ==
    IF d \in {1, 21, 31} THEN "st"
    ELSE IF d \in {2, 22} THEN "nd"
    ELSE IF d \in {3, 23} THEN "rd" ELSE "th"

FullMonthNames ==
    <<"January", "February", "March", "April", "May", "June", "July", "August",
      "September", "October", "November", "December">>

\* the last two decimal digits of a year
TwoDigits(y) == CharAt(Digits, ((y % 100) \div 10) + 1) \o CharAt(Digits, (y % 10) + 1)

\* the insertions made into candidates of one kind
InsertedInto(type) == {j \in 1..Len(drawn) : drawn[j].type = type}

\* C11: on every date, the text inserted into a day_blank is the day number
\* followed by its English ordinal suffix (st for 1, 21, 31; nd for 2, 22;
\* rd for 3, 23; th for all others, 11, 12 and 13 included), the text
\* inserted into a month_blank is the full month name and the text inserted
\* into a year_blank is the last two digits of the year; 2024-03-03 gives
\* "3rd", "March", "24" and 2024-11-21 gives "21st".
C11_DateFormatting ==
    /\ \A j \in InsertedInto("day_blank") :
           /\ drawn[j].text = DayNumerals[fill_date.day] \o EnglishSuffix(fill_date.day)
           /\ fill_date = Date(2024, 3, 3) => drawn[j].text = "3rd"
           /\ fill_date = Date(2024, 11, 21) => drawn[j].text = "21st"
    /\ \A j \in InsertedInto("month_blank") :
           /\ drawn[j].text = FullMonthNames[fill_date.month]
           /\ fill_date = Date(2024, 3, 3) => drawn[j].text = "March"
    /\ \A j \in InsertedInto("year_blank") :
           /\ drawn[j].text = TwoDigits(fill_date.year)
           /\ fill_date = Date(2024, 3, 3) => drawn[j].text = "24"

\* a fill on the 11th of a month of 2005 that wrote all three blanks
C11_Witness ==
    /\ FillSucceeded
    /\ fill_date = Date(2005, 11, 11)
    /\ \E j \in InsertedInto("day_blank") : drawn[j].text = "11th"
    /\ \E j \in InsertedInto("month_blank") : drawn[j].text = "November"
    /\ \E j \in InsertedInto("year_blank") : drawn[j].text = "05"

(***************************************************************************)
(* C12  Checkbox deduplication.                                            *)
(***************************************************************************)
\* the existing-checkbox candidates of page p at position (x, y)
CheckboxesAt(p, x, y) ==
    {k \in 1..Len(signature_locations) :
        /\ signature_locations[k].placeholder_type = "existing_checkbox"
        /\ signature_locations[k].page = p
        /\ signature_locations[k].x = x
        /\ signature_locations[k].y = y}

\* the document has been classified
Classified == <<file_idx, "find_signature_placeholders_simple">> \in calls

\* C12: the classifier emits at most one existing-checkbox candidate per
\* position and page; two parenthesis spellings at one (x0, top), or a glyph
\* and an eligible period at one (x0, top), yield exactly one candidate
\* there, and the same position on another page is emitted once again
\* because the set of detected positions is reset for each page.
C12_OneCheckboxPerPosition ==
    Classified =>
        \A p \in 0..(Len(CurrentFile.pages) - 1) :
            /\ \A k \in 1..Len(signature_locations) :
                   Cardinality(CheckboxesAt(p, signature_locations[k].x,
                                            signature_locations[k].y)) <= 1
            /\ 11 \in CurrentFile.pages[p + 1] => Cardinality(CheckboxesAt(p, 72, 480)) = 1
            /\ 12 \in CurrentFile.pages[p + 1] => Cardinality(CheckboxesAt(p, 72, 500)) = 1

\* both pages carry the two spellings at (72, 480), and the first also the
\* glyph and the period at (72, 500)
C12_Witness ==
    /\ Classified
    /\ pc = "fill_open"
    /\ CurrentFile.pages = <<{11, 12}, {11}>>
    /\ Cardinality(CheckboxesAt(0, 72, 480)) = 1
    /\ Cardinality(CheckboxesAt(1, 72, 480)) = 1
    /\ Cardinality(CheckboxesAt(0, 72, 500)) = 1

(***************************************************************************)
(* C13  Idempotence of classification.                                     *)
(***************************************************************************)
\* the documents before the current one that were classified
ClassifiedBefore ==
    {j \in 1..(file_idx - 1) : <<j, "find_signature_placeholders_simple">> \in calls}

\* the last of them: signature_locations still holds its candidates
LastClassified == CHOOSE j \in ClassifiedBefore : \A i \in ClassifiedBefore : i <= j

\* the current document has the token sets of the last classified one and
\* is classified under the same template name
SameRunAgain ==
    /\ ClassifiedBefore # {}
    /\ uploaded_files[LastClassified].pages = CurrentFile.pages
    /\ MatchPdfToTemplate(uploaded_files[LastClassified].features, template_files)[1]
           = matched_template

MatchedBefore == {j \in 1..(file_idx - 1) : <<j, "match_pdf_to_template">> \in calls}

\* the last of them: matched_template and match_score still hold its result
LastMatched == CHOOSE j \in MatchedBefore : \A i \in MatchedBefore : i <= j

Matched == <<file_idx, "match_pdf_to_template">> \in calls

\* the registry positions of the templates the matcher scores
Scored == {k \in 1..Len(TemplateNames) : template_files[TemplateNames[k]].status = "ok"}

\* the score of the k-th template for the current document
ScoreOf(k) ==
    Score(CurrentFile.features, TemplateNames[k], template_files[TemplateNames[k]].value)

\* the templates with the highest score
Top == {k \in Scored : \A i \in Scored : ScoreOf(i) <= ScoreOf(k)}

\* C15 as stated: when two or more templates obtain the same highest score,
\* the matcher returns the one that comes first in registry order.
C15_TieGoesToFirstAlways ==
    (Matched /\ Cardinality(Top) >= 2) => matched_template = TemplateNames[MinOf(Top)]

\* C15 amended: when two or more templates obtain the same highest score and
\* that score is above 0, the matcher returns the one that comes first in
\* registry order, with that score; when the highest score is 0 it returns
\* no template.
C15_TieGoesToFirst ==
    (Matched /\ Cardinality(Top) >= 2) =>
        IF ScoreOf(MinOf(Top)) > 0
        THEN /\ matched_template = TemplateNames[MinOf(Top)]
             /\ match_score = ScoreOf(MinOf(Top))
        ELSE matched_template = None /\ match_score = 0

\* Georgia and Alabama tie with Florida absent, and Georgia is returned
C15_Witness ==
    /\ Matched
    /\ Scored = {2, 3}
    /\ Top = {2, 3}
    /\ ScoreOf(2) > 0
    /\ matched_template = "Georgia Template"

(***************************************************************************)
(* C16  Jurisdiction bonus.                                                *)
(***************************************************************************)
\* the state of the k-th registered template
TemplateStates == <<"florida", "georgia", "alabama">>

\* what the detected states add to the k-th template's score
StateBonus(k) ==
    ScoreOf(k) - Score([CurrentFile.features EXCEPT !.state_indicators = {}],
                       TemplateNames[k], template_files[TemplateNames[k]].value)

\* C16: for every registered template, Florida, Georgia and Alabama alike,
\* the score includes +50 exactly when the detected states of the upload
\* contain the template's state; an upload whose only detected state is
\* Alabama gives the Alabama template +50.
C16_JurisdictionBonus ==
    Matched =>
        \A k \in Scored :
            StateBonus(k) = IF TemplateStates[k] \in CurrentFile.features.state_indicators
                            THEN 50 ELSE 0

(***************************************************************************)
(* C17  Signer name precondition.                                          *)
(***************************************************************************)
\* the filler has been invoked for some document
FillerInvoked == \E j \in 1..Len(uploaded_files) : <<j, "create_signed_pdf_simple">> \in calls

\* C17: with an empty signer name, pressing the button handles no document:
\* no analysis, match, classification or fill is invoked and no output entry
\* is produced; the filler is only ever invoked with a non-empty signer name.
C17_SignerNameRequired ==
    /\ signature_name = "" =>
           /\ calls = {}
           /\ processed_files = <<>>
           /\ drawn = <<>>
           /\ pc \in {"idle", "returned"}
    /\ FillerInvoked => signature_name # ""

\* the button pressed on a batch of two documents with no signer name
C17_Witness ==
    /\ signature_name = ""
    /\ Len(uploaded_files) = 2
    /\ pc = "returned"
    /\ reports = << <<0, "Please enter a signer name">> >>

(***************************************************************************)
(* C18  No-candidates hard stop.                                           *)
(***************************************************************************)
NoCandidates == "No signature placeholders found"

\* C18: when the classification of a matched document returns no candidate,
\* the error is shown, the filler is not invoked for the document, the
\* document adds no output entry and the loop goes on to the next document
\* if there is one; the filler is invoked only with a non-empty candidate
\* list, and a document reported to have no candidates never adds an entry.
C18_NoCandidatesStop ==
    [][ /\ (pc = "classify" /\ signature_locations' = <<>>) =>
               /\ reports' = Append(reports, <<file_idx, NoCandidates>>)
               /\ <<file_idx, "create_signed_pdf_simple">> \notin calls'
               /\ processed_files' = processed_files
               /\ IF file_idx < Len(uploaded_files)
                  THEN pc' = "analyze" /\ file_idx' = file_idx + 1
                  ELSE pc' = "results" /\ file_idx' = file_idx
        /\ (file_idx > 0 /\ <<file_idx, "create_signed_pdf_simple">> \in calls') =>
               (signature_locations # <<>> /\ <<file_idx, NoCandidates>> \notin Range(reports'))
        /\ processed_files' # processed_files =>
               <<file_idx, NoCandidates>> \notin Range(reports')
      ]_vars

\* a document without candidates, then one that was filled and added entries
C18_Witness ==
    /\ Len(uploaded_files) = 2
    /\ <<1, NoCandidates>> \in Range(reports)
    /\ <<1, "find_signature_placeholders_simple">> \in calls
    /\ <<1, "create_signed_pdf_simple">> \notin calls
    /\ <<2, "create_signed_pdf_simple">> \in calls
    /\ processed_files # <<>>

(***************************************************************************)
(* C19  Identifier extraction never aborts the pipeline.                   *)
(***************************************************************************)
\* the page the call reads, 1-based, or 0 when there is none
PageRead ==
    LET n == Len(unit_call.pdf_path_or_bytes.pages)
        number == IF unit_call.page_number >= n THEN 0 ELSE unit_call.page_number
        index == IF number < 0 THEN n + number ELSE number
    IN  IF index < 0 \/ index >= n THEN 0 ELSE index + 1

\* the call meets an error: an argument of another type or an unreadable
\* one, no page to read, or a page that cannot be tokenised
UnitError ==
    \/ unit_call.pdf_path_or_bytes.kind \notin {"BytesIO", "bytes", "path"}
    \/ ~unit_call.pdf_path_or_bytes.readable
    \/ PageRead = 0
    \/ PageRead \in unit_call.pdf_path_or_bytes.failing

\* the lines of the catalogue that carry an identifier
UnitLines == {13, 14, 15, 16}

\* there is no identifier to find: an unknown template, or a page without one
NothingToFind ==
    \/ unit_call.template_name \notin Range(TemplateNames)
    \/ PageRead # 0 /\ unit_call.pdf_path_or_bytes.pages[PageRead] \cap UnitLines = {}

\* C19: for every argument, template name and page number, an unreadable
\* document, an unknown template, a page number past the last page and a
\* token-extraction error included, extract_unit_info_from_page raises
\* nothing and returns a string; when an error occurs or no identifier is
\* found the string is "0000".
C19_UnitNeverRaises ==
    /\ unit_call.status # "raised"
    /\ unit_call.status = "returned" =>
           /\ unit_call.value \in STRING
           /\ (UnitError \/ NothingToFind) => unit_call.value = "0000"

\* a call whose page cannot be tokenised returned the default
C19_Witness ==
    /\ unit_call.status = "returned"
    /\ unit_call.pdf_path_or_bytes.readable
    /\ unit_call.pdf_path_or_bytes.pages = <<{13}, {14}>>
    /\ unit_call.pdf_path_or_bytes.failing = {2}
    /\ unit_call.template_name = "Georgia Template"
    /\ unit_call.page_number = 1
    /\ unit_call.value = "0000"

\* a call with a page number past the last page returned the first page's
\* identifier
C19_WitnessFound ==
    /\ unit_call.status = "returned"
    /\ unit_call.pdf_path_or_bytes.pages = <<{13}, {14}>>
    /\ unit_call.pdf_path_or_bytes.failing = {}
    /\ unit_call.template_name = "Florida Template"
    /\ unit_call.page_number = 3
    /\ unit_call.value = "1204"

(***************************************************************************)
(* C20  Excess date blanks are dropped.                                    *)
(***************************************************************************)
\* the candidates that were given a date role
DateRoles ==
    {k \in 1..Len(signature_locations) :
        signature_locations[k].placeholder_type \in {"day_blank", "month_blank", "year_blank"}}

\* C20: under the Georgia and Alabama templates only the first blanks in
\* top-to-bottom order are given roles (3 for Georgia, 5 for Alabama, three
\* of them date roles), and a blank in excess of them receives no insertion
\* of any kind at fill time, neither date text nor signature text.
C20_ExcessBlanksDropped ==
    (InFill /\ matched_template \in {"Georgia Template", "Alabama Template"}) =>
        /\ Cardinality(DateRoles) <= 3
        /\ \A j \in 1..Len(drawn) : drawn[j].type # "underscore_blank"

(***************************************************************************)
(* C21  Per-page independence of classification.                           *)
(***************************************************************************)
\* the candidates of page p, in list order
OnPage(locs, p) == SelectSeq(locs, LAMBDA l : l.page = p)

\* the candidates locs with the page index p
Repaged(locs, p) == [k \in 1..Len(locs) |-> [locs[k] EXCEPT !.page = p]]

\* C21: the candidates emitted for a page, the kind given to each of its
\* underscore blanks included, depend only on the page's own tokens and the
\* template: they are the candidates of a document that consists of that
\* page alone, whatever the other pages of the document carry.
C21_PageIndependence ==
    (Classified /\ pc = "fill_open") =>
        \A p \in 0..(Len(CurrentFile.pages) - 1) :
            OnPage(signature_locations, p)
                = Repaged(ExtractPlaceholders(<<CurrentFile.pages[p + 1]>>, matched_template), p)

(***************************************************************************)
(* C22  First match governs.                                               *)
(***************************************************************************)
\* the candidates other than checkboxes that the token at (x, y) of page p gave
TokenCandidates(p, x, y) ==
    {k \in 1..Len(signature_locations) :
        /\ signature_locations[k].placeholder_type # "existing_checkbox"
        /\ signature_locations[k].page = p
        /\ signature_locations[k].x = x
        /\ signature_locations[k].y = y}

\* C22: the signature-anchor, signature-line and date-blank rules exclude one
\* another, so a token yields at most one candidate that is not a checkbox;
\* a run of more than 20 underscores accepted as a signature line is not
\* also emitted as a date blank, and receives no date insertion.
C22_FirstMatchGoverns ==
    Classified =>
        /\ \A k \in 1..Len(signature_locations) :
               Cardinality(TokenCandidates(signature_locations[k].page,
                                           signature_locations[k].x,
                                           signature_locations[k].y)) <= 1
        /\ \A i, j \in 1..Len(drawn) :
               (/\ drawn[i].page = drawn[j].page
                /\ drawn[i].x = drawn[j].x /\ drawn[i].y = drawn[j].y
                /\ drawn[i].what = "signature") => drawn[j].what \notin DateInsertions

(***************************************************************************)
(* C23  A generic date blank is resolved from the text of the tokens       *)
(* within |dx| < 200 and |dy| < 50 of it: "day of" gives the day;          *)
(* otherwise "month" or a month name gives the month; otherwise "20" or    *)
(* "year" gives the year; otherwise the day; and when the tokens cannot be *)
(* extracted, the day.  The filler inserts the ordinal day, the month name *)
(* or the two-digit year accordingly.                                      *)
(***************************************************************************)

\* what the claim's precedence gives for a blank at x on the context line,
\* read off the tokens of the line that lie within 200 of x
ClaimedField(line, x) ==
    CASE line = 17 -> "day"                        \* "this day of": day; further right, nothing
      [] line = 18 -> IF x = 150 THEN "month"      \* "Month:" in reach
                      ELSE "day"                   \* only the blank in reach
      [] line = 19 -> IF x \in {150, 300} THEN "month"   \* "May," in reach, beats "20"
                      ELSE IF x = 350 THEN "year"        \* only "20" in reach
                      ELSE "day"
      [] line = 20 -> IF x = 150 THEN "year"       \* "Year" in reach
                      ELSE "day"
      [] line = 21 -> "day"                        \* "Dated": nothing matches
      [] line = 22 -> IF x = 150 THEN "day"        \* "day of" beats "March" and "2025"
                      ELSE IF x = 300 THEN "month" \* "of March _____ 2025"
                      ELSE IF x = 350 THEN "year"  \* only "2025" in reach
                      ELSE "day"

\* the texts of 3 March 2024
SampleTexts == [day |-> "3rd", month |-> "March", year |-> "24"]

\* the line of the page the filler is called for
ContextLine == CHOOSE line \in ContextLines : CurrentFile.pages[1] = {line}

\* the field the claim gives the one candidate of the call
ClaimedFieldOfCall ==
    LET loc == signature_locations[1]
    IN  IF ~page_extracts THEN "day"
        ELSE IF Abs(loc.y - ContextTop(ContextLine)) >= 50 THEN "day"
        ELSE ClaimedField(ContextLine, loc.x)

\* the call is one with a generic date blank
DateBlankCall == signature_locations[1].placeholder_type = "date_blank"

DateBlankFilled ==
    DateBlankCall /\ pc \in {"export", "export_save", "filled"} /\ Len(drawn) = 1

C23_DateBlankResolution ==
    (DateBlankCall /\ pc \in {"export", "export_save", "filled"}) =>
        /\ Len(drawn) = 1
        /\ drawn[1].type = "date_blank"
        /\ drawn[1].what = ClaimedFieldOfCall
        /\ drawn[1].text = SampleTexts[ClaimedFieldOfCall]

\* a month name and a century both in reach: the month is written
C23_Witness ==
    /\ DateBlankFilled
    /\ page_extracts
    /\ ContextLine = 19
    /\ signature_locations[1].x = 300
    /\ signature_locations[1].y = ContextTop(19) + 49
    /\ drawn[1].text = "March"

\* the tokens cannot be extracted: the day is written
C23_WitnessRaised ==
    /\ DateBlankFilled
    /\ ~page_extracts
    /\ ContextLine = 20
    /\ signature_locations[1].x = 150
    /\ drawn[1].text = "3rd"

(***************************************************************************)
(* C24  The signature text is placed above the anchor exactly when the     *)
(* anchor lies in the top region the classifier accepts signature anchors  *)
(* in (top < 345), and otherwise exactly at the anchor's own (x, y): the   *)
(* filler and the classifier agree on the top region.                      *)
(***************************************************************************)

InTopRegion(d) == d.y < AnchorTopCutoff

PlacedAbove(d) == d.px = d.x /\ d.py < d.y

PlacedOn(d) == d.px = d.x /\ d.py = d.y

C24_SignaturePlacement ==
    \A k \in 1..Len(drawn) :
        drawn[k].what = "signature" =>
            /\ PlacedAbove(drawn[k]) <=> InTopRegion(drawn[k])
            /\ ~InTopRegion(drawn[k]) => PlacedOn(drawn[k])

(***************************************************************************)
(* C25  A period accepted as a checkbox glyph gets its service tag from    *)
(* the same nearby-text window and phrase sets as a parenthesis glyph: a   *)
(* period and a parenthesis at the same position among the same tokens     *)
(* receive the same tag.                                                   *)
(***************************************************************************)

ParenthesisGlyphs == {"( )", "()", "(.)", "("}

\* the tokens of page p (0-based) of the current document that are not at (x, y)
TokensAround(p, x, y) ==
    {w \in Range(WordsOfLines(CurrentFile.pages[p + 1])) : ~(w.x0 = x /\ w.top = y)}

\* a period on one page and a parenthesis on another, at the same position
\* among the same tokens
SameSurroundings(period, paren) ==
    /\ period.placeholder_type = "existing_checkbox" /\ period.text = "."
    /\ paren.placeholder_type = "existing_checkbox" /\ paren.text \in ParenthesisGlyphs
    /\ period.x = paren.x /\ period.y = paren.y
    /\ TokensAround(period.page, period.x, period.y)
           = TokensAround(paren.page, paren.x, paren.y)

C25_PeriodTaggedAsParenthesis ==
    Classified =>
        \A i, j \in 1..Len(signature_locations) :
            SameSurroundings(signature_locations[i], signature_locations[j]) =>
                signature_locations[i].checkbox_type = signature_locations[j].checkbox_type

(***************************************************************************)
(* C26  The page-count term of a score is 20, 10, 5 or 0 for a difference  *)
(* of 0, 1, 2 or more pages; the word-count term is 15, 10, 5 or 0 for a   *)
(* difference below 100, below 500, below 1000 or larger; the score is a   *)
(* non-negative integer, the sum of these two terms, the jurisdiction      *)
(* term, the legal-notice term and 5 per common key phrase.                *)
(***************************************************************************)

ClaimedPageTerm(k) ==
    LET diff == Abs(CurrentFile.features.page_count
                    - template_files[TemplateNames[k]].value.page_count)
    IN  CASE diff = 0 -> 20 [] diff = 1 -> 10 [] diff = 2 -> 5 [] OTHER -> 0

ClaimedWordTerm(k) ==
    LET diff == Abs(CurrentFile.features.word_count
                    - template_files[TemplateNames[k]].value.word_count)
    IN  CASE diff \in 0..99 -> 15 [] diff \in 100..499 -> 10 [] diff \in 500..999 -> 5
          [] OTHER -> 0

LegalNoticeTerm == IF CurrentFile.features.has_demand_letter_keywords THEN 30 ELSE 0

PhraseTerm(k) ==
    5 * Cardinality({ph \in CurrentFile.features.key_phrases :
                        ph \in template_files[TemplateNames[k]].value.key_phrases})

\* the score the claim gives the k-th template, the jurisdiction term being
\* what the detected states add
ClaimedScore(k) ==
    StateBonus(k) + ClaimedPageTerm(k) + ClaimedWordTerm(k) + LegalNoticeTerm + PhraseTerm(k)

C26_ProximityScoring ==
    Matched =>
        /\ \A k \in Scored :
               /\ ScoreOf(k) = ClaimedScore(k)
               /\ ScoreOf(k) \in Nat
               /\ StateBonus(k) \in {0, 50}
        /\ \A k \in Scored : Scored = {k} => match_score = ClaimedScore(k)

\* two pages and 500 words away from the only template: 50 + 5 + 5 + 30
C26_Witness ==
    /\ Matched
    /\ Scored = {1}
    /\ CurrentFile.features.page_count = 3
    /\ CurrentFile.features.word_count = 800
    /\ CurrentFile.features.state_indicators = {"florida"}
    /\ match_score = 90

(***************************************************************************)
(* C27  The displayed signature is the first and the last whitespace-      *)
(* separated token of the signer name joined by one space when the name    *)
(* has two or more tokens ("Jane Q. Public" gives "Jane Public"), and the  *)
(* name verbatim when it has a single token.                               *)
(***************************************************************************)

\* what the claim gives for each signer name of the direct calls
ClaimedSignature ==
    [name \in SignerNames |->
        CASE name = "Cher" -> "Cher"
          [] name = " Cher" -> " Cher"
          [] name = "Jane Public" -> "Jane Public"
          [] name = "Jane Q. Public" -> "Jane Public"
          [] name = "  Jane   Q.  Public " -> "Jane Public"
          [] name = "Jane\tPublic" -> "Jane Public"
          [] name = "Mary Ann van der Berg" -> "Mary Berg"]

\* the call is one with a signature candidate, and its insertion is made
SignatureDrawn ==
    /\ signature_locations[1].placeholder_type = "signature"
    /\ Len(drawn) >= 1

C27_SignatureComposition ==
    \A k \in 1..Len(drawn) :
        drawn[k].what = "signature" => drawn[k].text = ClaimedSignature[signature_name]

C27_Witness ==
    /\ SignatureDrawn
    /\ signature_name = "Mary Ann van der Berg"
    /\ drawn[1].text = "Mary Berg"

\* a single token is written verbatim
C27_WitnessSingle ==
    /\ SignatureDrawn
    /\ signature_name = " Cher"
    /\ drawn[1].text = " Cher"

(***************************************************************************)
(* C28  The filler never modifies the candidates it is given: the page     *)
(* index is rewritten only on the copies made for a later page without     *)
(* candidates, so every original keeps its page index, kind and position,  *)
(* and every later empty page copies from the same page-1 set.             *)
(***************************************************************************)

\* the positions of the signatures written on page p (0-based)
SignaturesWrittenOn(p) ==
    {<<drawn[k].x, drawn[k].y>> : k \in {i \in 1..Len(drawn) :
        drawn[i].page = p /\ drawn[i].type = "signature"}}

\* the positions of the signature candidates of page p among the originals
SignatureCandidatesOn(p) ==
    {<<signature_locations[k].x, signature_locations[k].y>> :
        k \in {i \in 1..Len(signature_locations) :
            signature_locations[i].page = p
            /\ signature_locations[i].placeholder_type = "signature"}}

\* the pages after the first that have no candidate of their own
EmptyLaterPages ==
    {p \in 1..(Len(CurrentFile.pages) - 1) : OnPage(signature_locations, p) = <<>>}

\* every page has been filled
AllPagesFilled == pc \in {"export", "export_save"}

C28_CandidatesUnchanged ==
    /\ [][signature_locations' = signature_locations]_vars
    /\ [](AllPagesFilled =>
             \A p \in EmptyLaterPages : SignaturesWrittenOn(p) = SignatureCandidatesOn(0))

\* two later pages without candidates both carry the signature of page 1,
\* whose candidate is still on page 1
C28_Witness ==
    /\ AllPagesFilled
    /\ EmptyLaterPages = {1, 2}
    /\ SignatureCandidatesOn(0) = {<<72, 300>>}
    /\ SignaturesWrittenOn(1) = {<<72, 300>>}
    /\ SignaturesWrittenOn(2) = {<<72, 300>>}

(***************************************************************************)
(* C29  After a batch run the output entries are, for each uploaded        *)
(* document in upload order that passed analysis, matching, classification *)
(* and filling, exactly one entry per page in page order; a document that  *)
(* failed at any stage contributes none, so the number of entries is the   *)
(* sum of the page counts of the successfully filled documents.            *)
(***************************************************************************)

\* the j-th document passed analysis, matching and classification, so the
\* filler was called on it, and the filler showed no error
SuccessfullyFilled(j) ==
    /\ <<j, "analyze_pdf_structure">> \in calls
    /\ <<j, "match_pdf_to_template">> \in calls
    /\ <<j, "find_signature_placeholders_simple">> \in calls
    /\ <<j, "create_signed_pdf_simple">> \in calls
    /\ \A k \in 1..Len(reports) : reports[k][1] # j

RECURSIVE ClaimedPageNumbers(_)
\* the page numbers of the entries the claim gives the first j documents
ClaimedPageNumbers(j) ==
    IF j = 0 THEN <<>>
    ELSE ClaimedPageNumbers(j - 1)
         \o (IF SuccessfullyFilled(j)
             THEN [k \in 1..Len(uploaded_files[j].pages) |-> k]
             ELSE <<>>)

RECURSIVE PagesFilledUpTo(_)
\* the sum of the page counts of the successfully filled documents among
\* the first j
PagesFilledUpTo(j) ==
    IF j = 0 THEN 0
    ELSE PagesFilledUpTo(j - 1)
         + (IF SuccessfullyFilled(j) THEN Len(uploaded_files[j].pages) ELSE 0)

\* the batch run is over
BatchOver == pc \in {"results", "archive", "done", "crashed", "returned"}

C29_BatchOutputShape ==
    BatchOver =>
        /\ [k \in 1..Len(processed_files) |-> processed_files[k].page_num]
               = ClaimedPageNumbers(Len(uploaded_files))
        /\ Len(processed_files) = PagesFilledUpTo(Len(uploaded_files))
        /\ \A k \in 1..Len(processed_files) :
               processed_files[k].match_score > 20 /\ processed_files[k].locations_found > 0

\* a filled one-page document, one that cannot be parsed, and a filled
\* two-page document: three entries
C29_Witness ==
    /\ pc = "done"
    /\ Len(uploaded_files) = 3
    /\ SuccessfullyFilled(1) /\ Len(uploaded_files[1].pages) = 1
    /\ ~uploaded_files[2].readable
    /\ SuccessfullyFilled(3) /\ Len(uploaded_files[3].pages) = 2
    /\ Len(processed_files) = 3
    /\ processed_files[3].page_num = 2

(***************************************************************************)
(* C30  The matcher returns the highest score among the templates whose    *)
(* file exists and whose analysis succeeded, with a template that attains  *)
(* it; it returns no template and 0 exactly when none of them scores above *)
(* 0, as when no template file is there; the score is never negative.      *)
(***************************************************************************)

\* some template that is scored has a score above 0
SomePositive == \E k \in Scored : ScoreOf(k) > 0

C30_BestMatchSelection ==
    Matched =>
        /\ match_score >= 0
        /\ (matched_template = None /\ match_score = 0) <=> ~SomePositive
        /\ SomePositive =>
               /\ \E k \in Scored : /\ TemplateNames[k] = matched_template
                                     /\ ScoreOf(k) = match_score
               /\ \A k \in Scored : ScoreOf(k) <= match_score

\* Florida's file cannot be analysed; Alabama outscores Georgia and is returned
C30_Witness ==
    /\ Matched
    /\ template_files["Florida Template"].status = "None"
    /\ Scored = {2, 3}
    /\ 0 < ScoreOf(2) /\ ScoreOf(2) < ScoreOf(3)
    /\ matched_template = "Alabama Template"
    /\ match_score = ScoreOf(3)

\* the only template scores 0: no template is returned
C30_WitnessNone ==
    /\ Matched
    /\ Scored = {1}
    /\ ScoreOf(1) = 0
    /\ matched_template = None
    /\ match_score = 0
====
